---------------------------- MODULE Spec2Model ----------------------------
(***************************************************************************)
(* The contract-analysis pipeline of clause-wise-landing: the              *)
(* analyze-contract edge function (authentication, input validation,       *)
(* cooldown, rule engine, moderation, AI adapter, merge, persistence) as a *)
(* state machine, with the pure functions it calls as operators.           *)
(*                                                                         *)
(* A string is a sequence of one-character strings, so that length,        *)
(* indexOf, slice, toLowerCase, trim and the regular-expression splits of  *)
(* the source are computed character by character as the code does.        *)
(***************************************************************************)
EXTENDS Integers, Sequences, FiniteSets, TLC

(***************************************************************************)
(* String primitives (the JavaScript built-ins the source calls).          *)
(***************************************************************************)
Rep(c, n) == [i \in 1..n |-> c]

UpperChars ==
  <<"A","B","C","D","E","F","G","H","I","J","K","L","M",
    "N","O","P","Q","R","S","T","U","V","W","X","Y","Z">>

LowerChars ==
  <<"a","b","c","d","e","f","g","h","i","j","k","l","m",
    "n","o","p","q","r","s","t","u","v","w","x","y","z">>

\* String.prototype.toLowerCase on one character.
LowerChar(c) ==
  IF \E i \in DOMAIN UpperChars : UpperChars[i] = c
  THEN LowerChars[CHOOSE i \in DOMAIN UpperChars : UpperChars[i] = c]
  ELSE c

toLowerCase(s) == [i \in 1..Len(s) |-> LowerChar(s[i])]

\* The characters the regular-expression class \s and trim() treat as space.
IsSpace(c) == c \in {" ", "\t", "\n", "\r"}

Min(a, b) == IF a <= b THEN a ELSE b

Max(a, b) == IF a >= b THEN a ELSE b

\* String.prototype.substring(a, b): 0-based, end exclusive, arguments
\* clamped to [0, length] and swapped when a > b.
substring(s, a, b) ==
  LET ca == Max(0, Min(a, Len(s)))
      cb == Max(0, Min(b, Len(s)))
  IN  SubSeq(s, Min(ca, cb) + 1, Max(ca, cb))

\* String.prototype.slice(0, n) for n >= 0.
slice0(s, n) == SubSeq(s, 1, Min(n, Len(s)))

\* String.prototype.indexOf: the 0-based offset of the first occurrence, or -1.
indexOf(s, p) ==
  LET hits == {i \in 0..(Len(s) - Len(p)) : SubSeq(s, i + 1, i + Len(p)) = p}
  IN  IF hits = {} THEN -1 ELSE CHOOSE i \in hits : \A j \in hits : i <= j

\* String.prototype.trim.
trim(s) ==
  LET keep == {i \in 1..Len(s) : ~IsSpace(s[i])}
  IN  IF keep = {} THEN <<>>
      ELSE SubSeq(s, CHOOSE i \in keep : \A j \in keep : i <= j,
                     CHOOSE i \in keep : \A j \in keep : i >= j)

\* The positions 1..n in increasing order; SelectSeq keeps those wanted.
Indices(n) == [i \in 1..n |-> i]

\* The strings of a list one after the other: Array.prototype.join('').
RECURSIVE Concat(_)
Concat(ss) ==
  IF Len(ss) = 0 THEN <<>>
  ELSE IF Len(ss) = 1 THEN ss[1]
  ELSE Concat(SubSeq(ss, 1, Len(ss) \div 2))
         \o Concat(SubSeq(ss, Len(ss) \div 2 + 1, Len(ss)))

\* s.split(/\s+/).filter(w => w.length > 0): the runs of non-space characters.
Words(s) ==
  LET starts == SelectSeq(Indices(Len(s)), LAMBDA i :
                  ~IsSpace(s[i]) /\ (i = 1 \/ IsSpace(s[i - 1])))
      ends   == SelectSeq(Indices(Len(s)), LAMBDA i :
                  ~IsSpace(s[i]) /\ (i = Len(s) \/ IsSpace(s[i + 1])))
  IN  [k \in 1..Len(starts) |-> SubSeq(s, starts[k], ends[k])]

\* s.replace(/\s+/g, ' '): every maximal run of whitespace becomes one space
\* (the first character of a run is replaced, the others are dropped).
collapseWhitespace(s) ==
  LET kept == SelectSeq(Indices(Len(s)), LAMBDA i : ~(IsSpace(s[i]) /\ i > 1 /\ IsSpace(s[i - 1])))
  IN  [k \in 1..Len(kept) |-> IF IsSpace(s[kept[k]]) THEN " " ELSE s[kept[k]]]

\* Words(s).slice(a - 1, b).join(' '): the words a..b of s with one space
\* between them, which is the text from the first to the last of them with
\* its whitespace collapsed.
JoinWords(s, a, b) ==
  LET starts == SelectSeq(Indices(Len(s)), LAMBDA i :
                  ~IsSpace(s[i]) /\ (i = 1 \/ IsSpace(s[i - 1])))
      ends   == SelectSeq(Indices(Len(s)), LAMBDA i :
                  ~IsSpace(s[i]) /\ (i = Len(s) \/ IsSpace(s[i + 1])))
  IN  IF a > b \/ a > Len(starts) THEN <<>>
      ELSE collapseWhitespace(SubSeq(s, starts[a], ends[Min(b, Len(ends))]))

\* Number -> decimal string, as a template literal renders flags.length.
DigitChars == <<"0","1","2","3","4","5","6","7","8","9">>

RECURSIVE numberToString(_)
numberToString(n) ==
  IF n < 10 THEN <<DigitChars[n + 1]>>
  ELSE numberToString(n \div 10) \o <<DigitChars[(n % 10) + 1]>>

(***************************************************************************)
(* Rule engine: the pattern catalog and runRuleAnalyzer.                   *)
(***************************************************************************)
Severities == {"low", "medium", "high"}

patterns ==
  << <<"i","n","d","e","m","n">>,
     <<"l","i","m","i","t","a","t","i","o","n"," ","o","f"," ","l","i","a","b","i","l","i","t","y">>,
     <<"l","i","a","b","i","l","i","t","y"," ","c","a","p">>,
     <<"a","r","b","i","t","r","a","t","i","o","n">>,
     <<"j","u","r","i","s","d","i","c","t","i","o","n">>,
     <<"a","u","t","o","-","r","e","n","e","w">>,
     <<"r","e","n","e","w","a","l">>,
     <<"a","s","s","i","g","n","m","e","n","t">>,
     <<"c","o","n","f","i","d","e","n","t","i","a","l">>,
     <<"t","e","r","m","i","n","a","t","i","o","n"," ","f","o","r"," ","c","o","n","v","e","n","i","e","n","c","e">>,
     <<"l","a","t","e"," ","f","e","e">>,
     <<"i","n","t","e","r","e","s","t">>,
     <<"i","n","t","e","l","l","e","c","t","u","a","l"," ","p","r","o","p","e","r","t","y">>,
     <<"i","p"," ","o","w","n","e","r","s","h","i","p">>,
     <<"n","o","n","-","s","o","l","i","c","i","t">>,
     <<"n","o","n","c","o","m","p","e","t","e">>,
     <<"n","o","n","-","c","o","m","p","e","t","e">>,
     <<"w","a","r","r","a","n","t","y">>,
     <<"a","s"," ","i","s">>,
     <<"f","o","r","c","e"," ","m","a","j","e","u","r","e">>,
     <<"g","o","v","e","r","n","i","n","g"," ","l","a","w">> >>

severityMap ==
  << <<<<"i","n","d","e","m","n">>, "high">>,
     <<<<"l","i","m","i","t","a","t","i","o","n"," ","o","f"," ","l","i","a","b","i","l","i","t","y">>, "high">>,
     <<<<"l","i","a","b","i","l","i","t","y"," ","c","a","p">>, "high">>,
     <<<<"i","p"," ","o","w","n","e","r","s","h","i","p">>, "high">>,
     <<<<"n","o","n","c","o","m","p","e","t","e">>, "high">>,
     <<<<"n","o","n","-","c","o","m","p","e","t","e">>, "high">>,
     <<<<"a","r","b","i","t","r","a","t","i","o","n">>, "medium">>,
     <<<<"j","u","r","i","s","d","i","c","t","i","o","n">>, "medium">>,
     <<<<"a","s","s","i","g","n","m","e","n","t">>, "medium">>,
     <<<<"t","e","r","m","i","n","a","t","i","o","n"," ","f","o","r"," ","c","o","n","v","e","n","i","e","n","c","e">>, "medium">>,
     <<<<"c","o","n","f","i","d","e","n","t","i","a","l">>, "medium">>,
     <<<<"w","a","r","r","a","n","t","y">>, "medium">>,
     <<<<"a","u","t","o","-","r","e","n","e","w">>, "low">>,
     <<<<"r","e","n","e","w","a","l">>, "low">>,
     <<<<"l","a","t","e"," ","f","e","e">>, "low">>,
     <<<<"i","n","t","e","r","e","s","t">>, "low">>,
     <<<<"f","o","r","c","e"," ","m","a","j","e","u","r","e">>, "low">>,
     <<<<"g","o","v","e","r","n","i","n","g"," ","l","a","w">>, "low">>,
     <<<<"n","o","n","-","s","o","l","i","c","i","t">>, "medium">>,
     <<<<"i","n","t","e","l","l","e","c","t","u","a","l"," ","p","r","o","p","e","r","t","y">>, "medium">>,
     <<<<"a","s"," ","i","s">>, "medium">> >>

rationaleMap ==
  << <<<<"i","n","d","e","m","n">>,
       <<"I","n","d","e","m","n","i","f","i","c","a","t","i","o","n"," ","c","l","a","u","s","e","s"," ","c","a","n"," ","e","x","p","o","s","e"," ","y","o","u"," ","t","o"," ","u","n","l","i","m","i","t","e","d"," ","l","i","a","b","i","l","i","t","y"," ","f","o","r"," ","t","h","i","r","d","-","p","a","r","t","y"," ","c","l","a","i","m","s",".">>>>,
     <<<<"l","i","m","i","t","a","t","i","o","n"," ","o","f"," ","l","i","a","b","i","l","i","t","y">>,
       <<"L","i","a","b","i","l","i","t","y"," ","l","i","m","i","t","a","t","i","o","n","s"," ","m","a","y"," ","p","r","e","v","e","n","t"," ","y","o","u"," ","f","r","o","m"," ","r","e","c","o","v","e","r","i","n","g"," ","d","a","m","a","g","e","s"," ","f","o","r"," ","b","r","e","a","c","h","e","s",".">>>>,
     <<<<"l","i","a","b","i","l","i","t","y"," ","c","a","p">>,
       <<"L","i","a","b","i","l","i","t","y"," ","c","a","p","s"," ","c","a","n"," ","r","e","s","t","r","i","c","t"," ","c","o","m","p","e","n","s","a","t","i","o","n"," ","f","o","r"," ","s","i","g","n","i","f","i","c","a","n","t"," ","l","o","s","s","e","s"," ","o","r"," ","d","a","m","a","g","e","s",".">>>>,
     <<<<"i","p"," ","o","w","n","e","r","s","h","i","p">>,
       <<"I","P"," ","o","w","n","e","r","s","h","i","p"," ","t","e","r","m","s"," ","m","a","y"," ","t","r","a","n","s","f","e","r"," ","y","o","u","r"," ","w","o","r","k"," ","r","i","g","h","t","s"," ","t","o"," ","t","h","e"," ","c","l","i","e","n","t"," ","p","e","r","m","a","n","e","n","t","l","y",".">>>>,
     <<<<"n","o","n","c","o","m","p","e","t","e">>,
       <<"N","o","n","-","c","o","m","p","e","t","e"," ","c","l","a","u","s","e","s"," ","c","a","n"," ","r","e","s","t","r","i","c","t"," ","y","o","u","r"," ","a","b","i","l","i","t","y"," ","t","o"," ","w","o","r","k"," ","w","i","t","h"," ","o","t","h","e","r"," ","c","l","i","e","n","t","s",".">>>>,
     <<<<"n","o","n","-","c","o","m","p","e","t","e">>,
       <<"N","o","n","-","c","o","m","p","e","t","e"," ","c","l","a","u","s","e","s"," ","c","a","n"," ","r","e","s","t","r","i","c","t"," ","y","o","u","r"," ","a","b","i","l","i","t","y"," ","t","o"," ","w","o","r","k"," ","w","i","t","h"," ","o","t","h","e","r"," ","c","l","i","e","n","t","s",".">>>>,
     <<<<"a","r","b","i","t","r","a","t","i","o","n">>,
       <<"M","a","n","d","a","t","o","r","y"," ","a","r","b","i","t","r","a","t","i","o","n"," ","l","i","m","i","t","s"," ","y","o","u","r"," ","r","i","g","h","t"," ","t","o"," ","p","u","r","s","u","e"," ","c","l","a","i","m","s"," ","i","n"," ","c","o","u","r","t",".">>>>,
     <<<<"j","u","r","i","s","d","i","c","t","i","o","n">>,
       <<"J","u","r","i","s","d","i","c","t","i","o","n"," ","c","l","a","u","s","e","s"," ","m","a","y"," ","r","e","q","u","i","r","e"," ","d","i","s","p","u","t","e","s"," ","t","o"," ","b","e"," ","r","e","s","o","l","v","e","d"," ","i","n"," ","i","n","c","o","n","v","e","n","i","e","n","t"," ","l","o","c","a","t","i","o","n","s",".">>>>,
     <<<<"a","s","s","i","g","n","m","e","n","t">>,
       <<"A","s","s","i","g","n","m","e","n","t"," ","r","i","g","h","t","s"," ","a","l","l","o","w"," ","t","h","e"," ","c","l","i","e","n","t"," ","t","o"," ","t","r","a","n","s","f","e","r"," ","t","h","e"," ","c","o","n","t","r","a","c","t"," ","w","i","t","h","o","u","t"," ","y","o","u","r"," ","c","o","n","s","e","n","t",".">>>>,
     <<<<"t","e","r","m","i","n","a","t","i","o","n"," ","f","o","r"," ","c","o","n","v","e","n","i","e","n","c","e">>,
       <<"T","e","r","m","i","n","a","t","i","o","n"," ","f","o","r"," ","c","o","n","v","e","n","i","e","n","c","e"," ","a","l","l","o","w","s"," ","a","b","r","u","p","t"," ","c","o","n","t","r","a","c","t"," ","c","a","n","c","e","l","l","a","t","i","o","n"," ","w","i","t","h","o","u","t"," ","c","a","u","s","e",".">>>>,
     <<<<"c","o","n","f","i","d","e","n","t","i","a","l">>,
       <<"C","o","n","f","i","d","e","n","t","i","a","l","i","t","y"," ","t","e","r","m","s"," ","m","a","y"," ","b","e"," ","o","v","e","r","l","y"," ","b","r","o","a","d"," ","a","n","d"," ","r","e","s","t","r","i","c","t"," ","y","o","u","r"," ","f","u","t","u","r","e"," ","w","o","r","k",".">>>>,
     <<<<"w","a","r","r","a","n","t","y">>,
       <<"W","a","r","r","a","n","t","y"," ","c","l","a","u","s","e","s"," ","m","a","y"," ","c","r","e","a","t","e"," ","o","n","g","o","i","n","g"," ","o","b","l","i","g","a","t","i","o","n","s"," ","a","n","d"," ","l","i","a","b","i","l","i","t","y"," ","e","x","p","o","s","u","r","e",".">>>>,
     <<<<"a","u","t","o","-","r","e","n","e","w">>,
       <<"A","u","t","o","-","r","e","n","e","w","a","l"," ","c","l","a","u","s","e","s"," ","c","a","n"," ","e","x","t","e","n","d"," ","c","o","m","m","i","t","m","e","n","t","s"," ","b","e","y","o","n","d"," ","y","o","u","r"," ","i","n","t","e","n","d","e","d"," ","t","i","m","e","f","r","a","m","e",".">>>>,
     <<<<"r","e","n","e","w","a","l">>,
       <<"R","e","n","e","w","a","l"," ","t","e","r","m","s"," ","m","a","y"," ","l","o","c","k"," ","y","o","u"," ","i","n","t","o"," ","u","n","f","a","v","o","r","a","b","l","e"," ","c","o","n","d","i","t","i","o","n","s"," ","f","o","r"," ","e","x","t","e","n","d","e","d"," ","p","e","r","i","o","d","s",".">>>>,
     <<<<"l","a","t","e"," ","f","e","e">>,
       <<"L","a","t","e"," ","f","e","e"," ","p","r","o","v","i","s","i","o","n","s"," ","c","a","n"," ","r","e","s","u","l","t"," ","i","n"," ","a","d","d","i","t","i","o","n","a","l"," ","c","h","a","r","g","e","s"," ","f","o","r"," ","d","e","l","a","y","e","d"," ","p","a","y","m","e","n","t","s",".">>>>,
     <<<<"i","n","t","e","r","e","s","t">>,
       <<"I","n","t","e","r","e","s","t"," ","c","h","a","r","g","e","s"," ","o","n"," ","o","v","e","r","d","u","e"," ","p","a","y","m","e","n","t","s"," ","c","a","n"," ","a","c","c","u","m","u","l","a","t","e"," ","s","i","g","n","i","f","i","c","a","n","t"," ","c","o","s","t","s",".">>>>,
     <<<<"f","o","r","c","e"," ","m","a","j","e","u","r","e">>,
       <<"F","o","r","c","e"," ","m","a","j","e","u","r","e"," ","c","l","a","u","s","e","s"," ","d","e","f","i","n","e"," ","w","h","a","t"," ","e","v","e","n","t","s"," ","e","x","c","u","s","e"," ","p","e","r","f","o","r","m","a","n","c","e"," ","d","e","l","a","y","s",".">>>>,
     <<<<"g","o","v","e","r","n","i","n","g"," ","l","a","w">>,
       <<"G","o","v","e","r","n","i","n","g"," ","l","a","w"," ","d","e","t","e","r","m","i","n","e","s"," ","w","h","i","c","h"," ","j","u","r","i","s","d","i","c","t","i","o","n","'","s"," ","l","a","w","s"," ","a","p","p","l","y"," ","t","o"," ","d","i","s","p","u","t","e","s",".">>>>,
     <<<<"n","o","n","-","s","o","l","i","c","i","t">>,
       <<"N","o","n","-","s","o","l","i","c","i","t","a","t","i","o","n"," ","c","l","a","u","s","e","s"," ","m","a","y"," ","r","e","s","t","r","i","c","t"," ","y","o","u","r"," ","a","b","i","l","i","t","y"," ","t","o"," ","w","o","r","k"," ","w","i","t","h"," ","t","h","e"," ","c","l","i","e","n","t","'","s"," ","c","o","n","t","a","c","t","s",".">>>>,
     <<<<"i","n","t","e","l","l","e","c","t","u","a","l"," ","p","r","o","p","e","r","t","y">>,
       <<"I","P"," ","c","l","a","u","s","e","s"," ","d","e","f","i","n","e"," ","o","w","n","e","r","s","h","i","p"," ","a","n","d"," ","u","s","a","g","e"," ","r","i","g","h","t","s"," ","f","o","r"," ","c","r","e","a","t","e","d"," ","w","o","r","k",".">>>>,
     <<<<"a","s"," ","i","s">>,
       <<"A","s","-","i","s"," ","p","r","o","v","i","s","i","o","n","s"," ","l","i","m","i","t"," ","w","a","r","r","a","n","t","i","e","s"," ","a","n","d"," ","m","a","y"," ","r","e","d","u","c","e"," ","y","o","u","r"," ","l","e","g","a","l"," ","p","r","o","t","e","c","t","i","o","n","s",".">>>> >>

suggestionMap ==
  << <<<<"i","n","d","e","m","n">>,
       <<"N","e","g","o","t","i","a","t","e"," ","m","u","t","u","a","l"," ","i","n","d","e","m","n","i","f","i","c","a","t","i","o","n"," ","o","r"," ","c","a","p"," ","y","o","u","r"," ","i","n","d","e","m","n","i","t","y"," ","o","b","l","i","g","a","t","i","o","n","s"," ","t","o"," ","p","r","o","j","e","c","t"," ","v","a","l","u","e",".">>>>,
     <<<<"l","i","m","i","t","a","t","i","o","n"," ","o","f"," ","l","i","a","b","i","l","i","t","y">>,
       <<"R","e","q","u","e","s","t"," ","m","u","t","u","a","l"," ","l","i","a","b","i","l","i","t","y"," ","l","i","m","i","t","a","t","i","o","n","s"," ","o","r"," ","m","i","n","i","m","u","m"," ","l","i","a","b","i","l","i","t","y"," ","f","l","o","o","r","s",".">>>>,
     <<<<"l","i","a","b","i","l","i","t","y"," ","c","a","p">>,
       <<"E","n","s","u","r","e"," ","c","a","p","s"," ","d","o","n","'","t"," ","a","p","p","l","y"," ","t","o"," ","y","o","u","r"," ","o","w","n"," ","n","e","g","l","i","g","e","n","c","e"," ","o","r"," ","I","P"," ","i","n","f","r","i","n","g","e","m","e","n","t"," ","c","l","a","i","m","s",".">>>>,
     <<<<"i","p"," ","o","w","n","e","r","s","h","i","p">>,
       <<"R","e","t","a","i","n"," ","r","i","g","h","t","s"," ","t","o"," ","p","r","e","-","e","x","i","s","t","i","n","g"," ","w","o","r","k"," ","a","n","d"," ","g","e","n","e","r","a","l"," ","m","e","t","h","o","d","o","l","o","g","i","e","s"," ","d","e","v","e","l","o","p","e","d",".">>>>,
     <<<<"n","o","n","c","o","m","p","e","t","e">>,
       <<"L","i","m","i","t"," ","s","c","o","p","e"," ","t","o"," ","d","i","r","e","c","t"," ","c","o","m","p","e","t","i","t","o","r","s"," ","a","n","d"," ","s","p","e","c","i","f","i","c"," ","t","i","m","e","/","g","e","o","g","r","a","p","h","i","c"," ","b","o","u","n","d","a","r","i","e","s",".">>>>,
     <<<<"n","o","n","-","c","o","m","p","e","t","e">>,
       <<"L","i","m","i","t"," ","s","c","o","p","e"," ","t","o"," ","d","i","r","e","c","t"," ","c","o","m","p","e","t","i","t","o","r","s"," ","a","n","d"," ","s","p","e","c","i","f","i","c"," ","t","i","m","e","/","g","e","o","g","r","a","p","h","i","c"," ","b","o","u","n","d","a","r","i","e","s",".">>>>,
     <<<<"a","r","b","i","t","r","a","t","i","o","n">>,
       <<"N","e","g","o","t","i","a","t","e"," ","f","o","r"," ","m","e","d","i","a","t","i","o","n"," ","f","i","r","s","t",","," ","o","r"," ","m","u","t","u","a","l"," ","a","g","r","e","e","m","e","n","t"," ","t","o"," ","a","r","b","i","t","r","a","t","e",".">>>>,
     <<<<"j","u","r","i","s","d","i","c","t","i","o","n">>,
       <<"C","h","o","o","s","e"," ","a"," ","n","e","u","t","r","a","l"," ","j","u","r","i","s","d","i","c","t","i","o","n"," ","o","r"," ","y","o","u","r"," ","h","o","m","e"," ","j","u","r","i","s","d","i","c","t","i","o","n"," ","f","o","r"," ","d","i","s","p","u","t","e","s",".">>>>,
     <<<<"a","s","s","i","g","n","m","e","n","t">>,
       <<"R","e","q","u","i","r","e"," ","w","r","i","t","t","e","n"," ","c","o","n","s","e","n","t"," ","f","o","r"," ","a","s","s","i","g","n","m","e","n","t","s"," ","o","r"," ","l","i","m","i","t"," ","t","o"," ","c","o","r","p","o","r","a","t","e"," ","t","r","a","n","s","a","c","t","i","o","n","s",".">>>>,
     <<<<"t","e","r","m","i","n","a","t","i","o","n"," ","f","o","r"," ","c","o","n","v","e","n","i","e","n","c","e">>,
       <<"N","e","g","o","t","i","a","t","e"," ","n","o","t","i","c","e"," ","p","e","r","i","o","d","s"," ","a","n","d"," ","p","a","y","m","e","n","t"," ","f","o","r"," ","w","o","r","k"," ","c","o","m","p","l","e","t","e","d"," ","p","l","u","s"," ","c","o","s","t","s",".">>>>,
     <<<<"c","o","n","f","i","d","e","n","t","i","a","l">>,
       <<"D","e","f","i","n","e"," ","c","o","n","f","i","d","e","n","t","i","a","l","i","t","y"," ","s","c","o","p","e"," ","c","l","e","a","r","l","y"," ","a","n","d"," ","i","n","c","l","u","d","e"," ","r","e","a","s","o","n","a","b","l","e"," ","e","x","c","e","p","t","i","o","n","s",".">>>>,
     <<<<"w","a","r","r","a","n","t","y">>,
       <<"L","i","m","i","t"," ","w","a","r","r","a","n","t","i","e","s"," ","t","o"," ","p","r","o","f","e","s","s","i","o","n","a","l"," ","s","t","a","n","d","a","r","d","s"," ","a","n","d"," ","e","x","c","l","u","d","e"," ","c","o","n","s","e","q","u","e","n","t","i","a","l"," ","d","a","m","a","g","e","s",".">>>>,
     <<<<"a","u","t","o","-","r","e","n","e","w">>,
       <<"I","n","c","l","u","d","e"," ","o","p","t","-","o","u","t"," ","n","o","t","i","c","e"," ","p","e","r","i","o","d","s"," ","a","n","d"," ","r","i","g","h","t"," ","t","o"," ","m","o","d","i","f","y"," ","t","e","r","m","s"," ","u","p","o","n"," ","r","e","n","e","w","a","l",".">>>>,
     <<<<"r","e","n","e","w","a","l">>,
       <<"E","n","s","u","r","e"," ","r","e","n","e","w","a","l"," ","t","e","r","m","s"," ","a","r","e"," ","s","u","b","j","e","c","t"," ","t","o"," ","r","e","n","e","g","o","t","i","a","t","i","o","n"," ","a","n","d"," ","r","a","t","e"," ","a","d","j","u","s","t","m","e","n","t","s",".">>>>,
     <<<<"l","a","t","e"," ","f","e","e">>,
       <<"C","a","p"," ","l","a","t","e"," ","f","e","e","s"," ","a","t"," ","r","e","a","s","o","n","a","b","l","e"," ","a","m","o","u","n","t","s"," ","a","n","d"," ","p","r","o","v","i","d","e"," ","g","r","a","c","e"," ","p","e","r","i","o","d","s"," ","f","o","r"," ","p","a","y","m","e","n","t",".">>>>,
     <<<<"i","n","t","e","r","e","s","t">>,
       <<"N","e","g","o","t","i","a","t","e"," ","r","e","a","s","o","n","a","b","l","e"," ","i","n","t","e","r","e","s","t"," ","r","a","t","e","s"," ","a","n","d"," ","p","a","y","m","e","n","t"," ","p","l","a","n"," ","o","p","t","i","o","n","s",".">>>>,
     <<<<"f","o","r","c","e"," ","m","a","j","e","u","r","e">>,
       <<"E","n","s","u","r","e"," ","e","v","e","n","t","s"," ","i","n","c","l","u","d","e"," ","c","i","r","c","u","m","s","t","a","n","c","e","s"," ","b","e","y","o","n","d"," ","y","o","u","r"," ","r","e","a","s","o","n","a","b","l","e"," ","c","o","n","t","r","o","l",".">>>>,
     <<<<"g","o","v","e","r","n","i","n","g"," ","l","a","w">>,
       <<"C","h","o","o","s","e"," ","l","a","w","s"," ","f","r","o","m"," ","a"," ","j","u","r","i","s","d","i","c","t","i","o","n"," ","f","a","m","i","l","i","a","r"," ","t","o"," ","b","o","t","h"," ","p","a","r","t","i","e","s",".">>>>,
     <<<<"n","o","n","-","s","o","l","i","c","i","t">>,
       <<"L","i","m","i","t"," ","t","o"," ","e","m","p","l","o","y","e","e","s"," ","y","o","u"," ","d","i","r","e","c","t","l","y"," ","w","o","r","k","e","d"," ","w","i","t","h"," ","a","n","d"," ","r","e","a","s","o","n","a","b","l","e"," ","t","i","m","e"," ","p","e","r","i","o","d","s",".">>>>,
     <<<<"i","n","t","e","l","l","e","c","t","u","a","l"," ","p","r","o","p","e","r","t","y">>,
       <<"C","l","a","r","i","f","y"," ","w","o","r","k","-","f","o","r","-","h","i","r","e"," ","v","s","."," ","l","i","c","e","n","s","e","d"," ","w","o","r","k"," ","a","n","d"," ","r","e","t","a","i","n"," ","p","o","r","t","f","o","l","i","o"," ","r","i","g","h","t","s",".">>>>,
     <<<<"a","s"," ","i","s">>,
       <<"R","e","q","u","e","s","t"," ","s","p","e","c","i","f","i","c"," ","w","a","r","r","a","n","t","i","e","s"," ","f","o","r"," ","c","r","i","t","i","c","a","l"," ","d","e","l","i","v","e","r","a","b","l","e","s"," ","a","n","d"," ","f","i","t","n","e","s","s"," ","f","o","r"," ","p","u","r","p","o","s","e",".">>>> >>

\* findClauseContext falls back to 120 characters either side of the match.
ContextRadius == 120

\* A clause longer than 240 characters is cut to 237 and an ellipsis.
MaxClauseChars == 240

ClauseCutChars == 237

DefaultRationale ==
  <<"T","h","i","s"," ","c","l","a","u","s","e"," ","m","a","y"," ","r","e","q","u","i","r","e"," ","c","a","r","e","f","u","l"," ","r","e","v","i","e","w",".">>

DefaultSuggestion ==
  <<"C","o","n","s","i","d","e","r"," ","n","e","g","o","t","i","a","t","i","n","g"," ","m","o","r","e"," ","f","a","v","o","r","a","b","l","e"," ","t","e","r","m","s",".">>

SummaryNone ==
  <<"N","o"," ","s","i","g","n","i","f","i","c","a","n","t"," ","r","i","s","k"," ","p","a","t","t","e","r","n","s"," ","d","e","t","e","c","t","e","d","."," ","T","h","i","s"," ","a","p","p","e","a","r","s"," ","t","o"," ","b","e"," ","a"," ","r","e","l","a","t","i","v","e","l","y"," ","s","t","a","n","d","a","r","d"," ","a","g","r","e","e","m","e","n","t",".">>

SummaryHighPre ==
  <<"F","o","u","n","d"," ">>

SummaryHighPost ==
  <<" ","p","o","t","e","n","t","i","a","l"," ","i","s","s","u","e","s"," ","i","n","c","l","u","d","i","n","g"," ","h","i","g","h","-","r","i","s","k"," ","c","l","a","u","s","e","s"," ","t","h","a","t"," ","c","o","u","l","d"," ","s","i","g","n","i","f","i","c","a","n","t","l","y"," ","i","m","p","a","c","t"," ","y","o","u","r"," ","r","i","g","h","t","s"," ","a","n","d"," ","o","b","l","i","g","a","t","i","o","n","s",".">>

SummaryMediumPre ==
  <<"I","d","e","n","t","i","f","i","e","d"," ">>

SummaryMediumPost ==
  <<" ","a","r","e","a","s"," ","f","o","r"," ","r","e","v","i","e","w"," ","w","i","t","h"," ","m","o","d","e","r","a","t","e"," ","r","i","s","k"," ","f","a","c","t","o","r","s"," ","t","h","a","t"," ","w","a","r","r","a","n","t"," ","c","a","r","e","f","u","l"," ","c","o","n","s","i","d","e","r","a","t","i","o","n",".">>

SummaryLowPre ==
  <<"D","e","t","e","c","t","e","d"," ">>

SummaryLowPost ==
  <<" ","m","i","n","o","r"," ","c","l","a","u","s","e","s"," ","t","h","a","t"," ","a","r","e"," ","g","e","n","e","r","a","l","l","y"," ","s","t","a","n","d","a","r","d"," ","b","u","t"," ","w","o","r","t","h"," ","u","n","d","e","r","s","t","a","n","d","i","n","g",".">>

\* map[key] || dflt over a table of <<key, value>> pairs.
Lookup(map, key, dflt) ==
  IF \E i \in DOMAIN map : map[i][1] = key
  THEN map[CHOOSE i \in DOMAIN map : map[i][1] = key][2]
  ELSE dflt

IsTerminator(c) == c \in {".", "!", "?"}

\* text.split(/[.!?]+/): the pieces between maximal runs of terminators
\* (one more piece than there are runs, empty where a run starts or ends
\* the text).
splitOnTerminators(s) ==
  LET n      == Len(s)
      starts == SelectSeq(Indices(n), LAMBDA i : IsTerminator(s[i])
                                           /\ (i = 1 \/ ~IsTerminator(s[i - 1])))
      ends   == SelectSeq(Indices(n), LAMBDA i : IsTerminator(s[i])
                                           /\ (i = n \/ ~IsTerminator(s[i + 1])))
      runs   == Len(starts)
  IN  [k \in 1..(runs + 1) |->
         SubSeq(s, IF k = 1 THEN 1 ELSE ends[k - 1] + 1,
                   IF k = runs + 1 THEN n ELSE starts[k] - 1)]

ContextWindow(text, startIndex) ==
  substring(text, Max(0, startIndex - ContextRadius), startIndex + ContextRadius)

RECURSIVE ClauseContextFrom(_, _, _, _, _)
ClauseContextFrom(text, sentences, k, charCount, startIndex) ==
  IF k > Len(sentences) THEN ContextWindow(text, startIndex)
  ELSE LET sentenceStart == charCount
           sentenceEnd   == charCount + Len(sentences[k])
       IN  IF startIndex >= sentenceStart /\ startIndex <= sentenceEnd
           THEN IF trim(sentences[k]) # <<>>
                THEN trim(sentences[k])
                ELSE ContextWindow(text, startIndex)
           ELSE ClauseContextFrom(text, sentences, k + 1, sentenceEnd + 1, startIndex)

findClauseContext(text, pattern, startIndex) ==
  ClauseContextFrom(text, splitOnTerminators(text), 1, 0, startIndex)

Ellipsis == <<".",".",".">>

RuleFlag(source_text, pattern, index) ==
  LET clause == findClauseContext(source_text, pattern, index)
  IN  [clause     |-> IF Len(clause) > MaxClauseChars
                      THEN substring(clause, 0, ClauseCutChars) \o Ellipsis
                      ELSE clause,
       severity   |-> Lookup(severityMap, pattern, "low"),
       rationale  |-> Lookup(rationaleMap, pattern, DefaultRationale),
       suggestion |-> Lookup(suggestionMap, pattern, DefaultSuggestion)]

\* lowerText.indexOf(pattern.toLowerCase()) for the k-th catalog pattern.
PatternIndex(lowerText, k) == indexOf(lowerText, toLowerCase(patterns[k]))

\* foundPatterns when the loop reaches the k-th pattern: the patterns before
\* it that occur in the text.
FoundBefore(lowerText, k) ==
  {patterns[j] : j \in {i \in 1..(k - 1) : PatternIndex(lowerText, i) # -1}}

\* A pattern loop that pushes a flag at every occurrence of a pattern.
RuleFlagsEveryOccurrence(source_text) ==
  LET lowerText == toLowerCase(source_text)
      occ(k) == SelectSeq(Indices(Len(lowerText)), LAMBDA p :
                  substring(lowerText, p - 1, p - 1 + Len(patterns[k])) = patterns[k])
      flagsOf(k) == [n \in 1..Len(occ(k)) |->
                       RuleFlag(source_text, patterns[k], occ(k)[n] - 1)]
      RECURSIVE upTo(_)
      upTo(k) == IF k = 0 THEN <<>> ELSE upTo(k - 1) \o flagsOf(k)
  IN  upTo(Len(patterns))

\* The pattern loop of runRuleAnalyzer: flags in catalog order, one per
\* pattern that occurs and is not yet in foundPatterns.
RuleFlags(source_text) ==
  LET lowerText == toLowerCase(source_text)
      fired == SelectSeq(Indices(Len(patterns)), LAMBDA k :
                              /\ PatternIndex(lowerText, k) # -1
                              /\ patterns[k] \notin FoundBefore(lowerText, k))
  IN  [n \in 1..Len(fired) |->
         RuleFlag(source_text, patterns[fired[n]], PatternIndex(lowerText, fired[n]))]

\* An overall risk that overlooks the medium flags.
RuleOverallRiskLowUnlessHigh(flags) ==
  IF \E i \in DOMAIN flags : flags[i].severity = "high" THEN "high" ELSE "low"

RuleOverallRisk(flags) ==
  IF \E i \in DOMAIN flags : flags[i].severity = "high" THEN "high"
  ELSE IF \E i \in DOMAIN flags : flags[i].severity = "medium" THEN "medium"
  ELSE "low"

RuleSummary(flags, overall_risk) ==
  IF Len(flags) = 0 THEN SummaryNone
  ELSE IF overall_risk = "high"
       THEN SummaryHighPre \o numberToString(Len(flags)) \o SummaryHighPost
  ELSE IF overall_risk = "medium"
       THEN SummaryMediumPre \o numberToString(Len(flags)) \o SummaryMediumPost
  ELSE SummaryLowPre \o numberToString(Len(flags)) \o SummaryLowPost

runRuleAnalyzer(source_text) ==
  LET flags == RuleFlags(source_text)
      risk  == RuleOverallRisk(flags)
  IN  [overall_risk |-> risk,
       summary      |-> RuleSummary(flags, risk),
       flags        |-> flags]

(***************************************************************************)
(* Moderation: the verdict ensureSafeInput draws from a moderation result  *)
(* and the message the handler builds for blocked content.  A moderation   *)
(* body is [results |-> Seq([flagged, categories])], categories being the  *)
(* <<name, isFlagged>> entries of the result in their order.               *)
(***************************************************************************)
RECURSIVE FlaggedNames(_, _)
FlaggedNames(categories, k) ==
  IF k > Len(categories) THEN <<>>
  ELSE IF categories[k][2]
       THEN <<categories[k][1]>> \o FlaggedNames(categories, k + 1)
       ELSE FlaggedNames(categories, k + 1)

\* The check at the end of ensureSafeInput: only results[0] is looked at.
ModerationVerdict(body) ==
  IF Len(body.results) > 0 /\ body.results[1].flagged
  THEN [blocked    |-> TRUE,
        categories |-> FlaggedNames(body.results[1].categories, 1)]
  ELSE [blocked |-> FALSE, categories |-> <<>>]

\* Array.prototype.join(', ').
RECURSIVE JoinComma(_, _)
JoinComma(names, k) ==
  IF k > Len(names) THEN <<>>
  ELSE IF k = Len(names) THEN names[k]
  ELSE names[k] \o <<","," ">> \o JoinComma(names, k + 1)

ModerationMessagePre ==
  <<"W","e"," ","c","a","n","'","t"," ","a","n","a","l","y","z","e"," ","t","h","i","s"," ","t","e","x","t"," ","b","e","c","a","u","s","e"," ","i","t"," ","t","r","i","g","g","e","r","s"," ","s","a","f","e","t","y"," ","f","i","l","t","e","r","s"," ","(","c","a","t","e","g","o","r","i","e","s",":"," ">>

ModerationMessagePost ==
  <<")","."," ","P","l","e","a","s","e"," ","r","e","m","o","v","e"," ","s","e","n","s","i","t","i","v","e"," ","c","o","n","t","e","n","t"," ","a","n","d"," ","t","r","y"," ","a","g","a","i","n",".">>

formatModerationMessage(categories) ==
  ModerationMessagePre \o JoinComma(categories, 1) \o ModerationMessagePost

(***************************************************************************)
(* AI adapter (providers/openai.ts).  A parsed JSON value keeps the type   *)
(* of each field beside its value, so that the structural check can fail:  *)
(* a text field is [t, s] (s a string when t = "string"), an enumerated    *)
(* field is [t, v], the flags field is [t, items].                         *)
(***************************************************************************)
DefaultModel ==
  <<"g","p","t","-","5","-","2","0","2","5","-","0","8","-","0","7">>

Gpt4oMini ==
  <<"g","p","t","-","4","o","-","m","i","n","i">>

Gpt41 ==
  <<"g","p","t","-","4",".","1","-","2","0","2","5","-","0","4","-","1","4">>

startsWith(s, prefix) ==
  Len(s) >= Len(prefix) /\ SubSeq(s, 1, Len(prefix)) = prefix

\* getAIConfig: OPENAI_MODEL, or the default when it is unset or empty.
ConfiguredModel(openaiModel) ==
  IF openaiModel = <<>> THEN DefaultModel ELSE openaiModel

\* analyzeWithOpenAI replaces a model name that looks like an API key.
SanitizedModel(cfgModel) ==
  IF cfgModel = <<>> \/ startsWith(toLowerCase(cfgModel), <<"s","k","-">>)
  THEN Gpt4oMini
  ELSE cfgModel

\* Variants of the alternates: the other order, and one alternate more.
fallbacksReversed == <<Gpt41, Gpt4oMini>>

fallbacksThree == <<Gpt4oMini, Gpt41, DefaultModel>>

\* The alternate models, in the order they are tried.
fallbacks == <<Gpt4oMini, Gpt41>>

\* The models analyzeWithOpenAI attempts, in order.
AttemptModels(model) == <<model>> \o fallbacks

\* callOpenAIJSON picks the Responses API for the gpt-5, o3 and o4 families.
isResponses(model) ==
  \/ startsWith(toLowerCase(model), <<"g","p","t","-","5">>)
  \/ startsWith(toLowerCase(model), <<"o","3">>)
  \/ startsWith(toLowerCase(model), <<"o","4">>)

\* The input ceiling of analyzeWithOpenAI.
MAX == 60000

TruncationNote ==
  <<" ","(","N","o","t","e",":"," ","a","n","a","l","y","s","i","s"," ","r","a","n"," ","o","n"," ","a"," ","t","r","u","n","c","a","t","e","d"," ","e","x","c","e","r","p","t",".",")">>

IsSeverity(e) == e.t = "string" /\ e.v \in Severities

looksLikeSchema(o) ==
  /\ o.t = "object"
  /\ IsSeverity(o.overall_risk)
  /\ o.summary.t = "string"
  /\ o.flags.t = "array"
  /\ \A i \in DOMAIN o.flags.items :
       LET f == o.flags.items[i]
       IN  /\ f.t = "object"
           /\ f.clause.t = "string"
           /\ IsSeverity(f.severity)
           /\ f.rationale.t = "string"
           /\ f.suggestion.t = "string"

\* What callOpenAIJSON makes of the remote answer: an exception with its
\* code ("" for a rejected fetch, which carries none) or the parsed value.
callOpenAIJSON(answer) ==
  CASE answer.kind = "reject"  -> [threw |-> TRUE,  code |-> "",              parsed |-> answer.parsed]
    [] answer.kind = "http"    -> [threw |-> TRUE,  code |-> "AI_ERROR",      parsed |-> answer.parsed]
    [] answer.kind = "nojson"  -> [threw |-> TRUE,  code |-> "AI_BAD_OUTPUT", parsed |-> answer.parsed]
    [] answer.kind = "badjson" -> [threw |-> TRUE,  code |-> "AI_BAD_JSON",   parsed |-> answer.parsed]
    [] OTHER                   -> [threw |-> FALSE, code |-> "",              parsed |-> answer.parsed]

\* { ...parsed, meta } with the truncation note appended to the summary.
AdapterResult(parsed, truncated) ==
  [overall_risk |-> parsed.overall_risk.v,
   summary      |-> IF truncated
                    THEN trim(parsed.summary.s) \o TruncationNote
                    ELSE parsed.summary.s,
   flags        |-> [i \in DOMAIN parsed.flags.items |->
                       [clause     |-> parsed.flags.items[i].clause.s,
                        severity   |-> parsed.flags.items[i].severity.v,
                        rationale  |-> parsed.flags.items[i].rationale.s,
                        suggestion |-> parsed.flags.items[i].suggestion.s]]]

\* A variant of runAttempt that answers every nonconforming value with
\* another retry.
runAttemptStepRetriesAgain(answer, callNo) ==
  LET r == callOpenAIJSON(answer)
  IN  IF r.threw THEN [kind |-> "throw", code |-> r.code]
      ELSE IF looksLikeSchema(r.parsed) THEN [kind |-> "return", code |-> ""]
      ELSE [kind |-> "retry", code |-> ""]

\* runAttempt after one answer: return the result, issue the retry, or throw.
\* callNo is 1 for the first request of the attempt and 2 for its retry.
runAttemptStep(answer, callNo) ==
  LET r == callOpenAIJSON(answer)
  IN  IF r.threw THEN [kind |-> "throw", code |-> r.code]
      ELSE IF looksLikeSchema(r.parsed) THEN [kind |-> "return", code |-> ""]
      ELSE IF callNo = 1 THEN [kind |-> "retry", code |-> ""]
      ELSE [kind |-> "throw", code |-> "AI_BAD_OUTPUT"]

(***************************************************************************)
(* CLAUSEWISE_JSON_SCHEMA: the response schema the adapter declares.       *)
(***************************************************************************)
SummaryMaxLength == 600

FlagsMaxItems == 40

ClauseMaxLength == 600

RationaleMaxLength == 400

SuggestionMaxLength == 400

ConformsToSchema(res) ==
  /\ res.overall_risk \in Severities
  /\ Len(res.summary) >= 1 /\ Len(res.summary) <= SummaryMaxLength
  /\ Len(res.flags) <= FlagsMaxItems
  /\ \A i \in DOMAIN res.flags :
       /\ Len(res.flags[i].clause) >= 1
       /\ Len(res.flags[i].clause) <= ClauseMaxLength
       /\ res.flags[i].severity \in Severities
       /\ Len(res.flags[i].rationale) <= RationaleMaxLength
       /\ Len(res.flags[i].suggestion) <= SuggestionMaxLength

(***************************************************************************)
(* Result merge (analyze-contract, step 5).  byKey is the Map of the       *)
(* source: a sequence of [key, flag] entries in insertion order, a set on  *)
(* an existing key keeping the entry's place.                              *)
(***************************************************************************)
NormKeyChars == 140

norm(s) == slice0(collapseWhitespace(toLowerCase(s)), NormKeyChars)

rank(sev) == CASE sev = "low" -> 0 [] sev = "medium" -> 1 [] sev = "high" -> 2

\* prefer AI on tie or conflict
pickSeverity(a, b) == IF rank(b) >= rank(a) THEN b ELSE a

\* A variant of byKey.has that finds no key.
MapHasNever(m, k) == FALSE

MapHas(m, k) == \E i \in DOMAIN m : m[i].key = k

MapGet(m, k) == m[CHOOSE i \in DOMAIN m : m[i].key = k].flag

MapSet(m, k, f) ==
  IF MapHas(m, k)
  THEN [m EXCEPT ![CHOOSE i \in DOMAIN m : m[i].key = k] = [key |-> k, flag |-> f]]
  ELSE Append(m, [key |-> k, flag |-> f])

RECURSIVE SeedRuleFlags(_, _, _)
SeedRuleFlags(byKey, ruleFlags, k) ==
  IF k > Len(ruleFlags) THEN byKey
  ELSE SeedRuleFlags(MapSet(byKey, norm(ruleFlags[k].clause), ruleFlags[k]),
                     ruleFlags, k + 1)

\* A replacement that keeps the existing flag's texts.
MergeFlagKeepsExisting(prev, f) ==
  [clause     |-> prev.clause,
   severity   |-> pickSeverity(prev.severity, f.severity),
   rationale  |-> prev.rationale,
   suggestion |-> prev.suggestion]

\* The replacement the loop stores for an AI flag f whose key exists.
MergeFlag(prev, f) ==
  [clause     |-> IF Len(prev.clause) >= Len(f.clause) THEN prev.clause ELSE f.clause,
   severity   |-> pickSeverity(prev.severity, f.severity),
   rationale  |-> IF f.rationale # <<>> THEN f.rationale ELSE prev.rationale,
   suggestion |-> IF f.suggestion # <<>> THEN f.suggestion ELSE prev.suggestion]

RECURSIVE MergeAIFlags(_, _, _)
MergeAIFlags(byKey, aiFlags, k) ==
  IF k > Len(aiFlags) THEN byKey
  ELSE LET f   == aiFlags[k]
           key == norm(f.clause)
       IN  MergeAIFlags(IF ~MapHas(byKey, key)
                        THEN MapSet(byKey, key, f)
                        ELSE MapSet(byKey, key, MergeFlag(MapGet(byKey, key), f)),
                        aiFlags, k + 1)

mergedFlags(ruleFlags, aiFlags) ==
  LET byKey == MergeAIFlags(SeedRuleFlags(<<>>, ruleFlags, 1), aiFlags, 1)
  IN  [i \in DOMAIN byKey |-> byKey[i].flag]

\* A variant of the overall risk that always takes the AI's.
mergedOverallRiskTakesAI(ruleRisk, aiRisk) == aiRisk

\* b) Overall risk = max(ruleBased, ai)
mergedOverallRisk(ruleRisk, aiRisk) ==
  IF rank(aiRisk) > rank(ruleRisk) THEN aiRisk ELSE ruleRisk

\* c) Summary prefer AI
mergedSummary(ruleSummary, aiSummary) ==
  IF aiSummary # <<>> THEN aiSummary ELSE ruleSummary

mergeResults(rule, ai) ==
  [overall_risk |-> mergedOverallRisk(rule.overall_risk, ai.overall_risk),
   summary      |-> mergedSummary(rule.summary, ai.summary),
   flags        |-> mergedFlags(rule.flags, ai.flags)]

(***************************************************************************)
(* Configuration (supabase/functions/_shared/config/rules.ts).             *)
(***************************************************************************)
MAX_ANALYZE_CHARS == 60000

(***************************************************************************)
(* Inputs: the request bodies, the environment and the answers of the      *)
(* remote collaborators that the runs below draw from.                     *)
(***************************************************************************)
\* The longest flag list of the generated AI answers.
MaxAIFlags == 1

SeqsUpTo(S, n) == UNION {[1..k -> S] : k \in 0..n}

TextDuplicateClause ==
  <<" ","C","o","n","t","r","a","c","t","o","r"," ","s","h","a","l","l"," ","I","N","D","E","M","N","I","F","Y"," ","C","l","i","e","n","t"," ","u","p","o","n"," ","r","e","n","e","w","a","l",".","\n">>

TextArbitration ==
  <<"D","i","s","p","u","t","e","s"," ","g","o"," ","t","o"," ","a","r","b","i","t","r","a","t","i","o","n",".">>

TextNoPattern ==
  <<"P","a","y","m","e","n","t"," ","i","s"," ","d","u","e"," ","i","n"," ","3","0"," ","d","a","y","s",".">>

\* source_text of the request: empty, three contracts, and one over the limit.
SourceTexts ==
  { <<>>, TextDuplicateClause, TextArbitration, TextNoPattern,
    Rep("x", MAX_ANALYZE_CHARS + 1) }

\* OPENAI_MODEL: unset, or an API key put there by mistake.
OpenAIModels ==
  { <<>>, <<"s","k","-","p","r","o","j","-","1","2","3">> }

\* AI_PROVIDER, lowercased, with its default.
Providers == {"openai", "anthropic"}

CategoryNames == << <<"v","i","o","l","e","n","c","e">>, <<"h","a","t","e">> >>

\* The bodies the moderation endpoint answers with.
ModerationBodies ==
  { [results |-> <<>>] }
  \cup
  { [results |-> <<[flagged |-> fl,
                    categories |-> << <<CategoryNames[1], c1>>, <<CategoryNames[2], c2>> >>]>>] :
      fl \in BOOLEAN, c1 \in BOOLEAN, c2 \in BOOLEAN }

JText(s) == [t |-> "string", s |-> s]

JEnum(v) == [t |-> "string", v |-> v]

JFlag(clause, severity, rationale, suggestion) ==
  [t |-> "object", clause |-> JText(clause), severity |-> JEnum(severity),
   rationale |-> JText(rationale), suggestion |-> JText(suggestion)]

JObject(overall_risk, summary, flags) ==
  [t |-> "object", overall_risk |-> JEnum(overall_risk), summary |-> JText(summary),
   flags |-> [t |-> "array", items |-> flags]]

JNull ==
  [t |-> "null", overall_risk |-> [t |-> "undefined", v |-> ""],
   summary |-> [t |-> "undefined", s |-> <<>>],
   flags |-> [t |-> "undefined", items |-> <<>>]]

\* Flags the AI answers are built from: one whose clause has the key of the
\* rule clause of TextDuplicateClause, one with the rule clause of
\* TextArbitration, one with a clause of its own.
AIFlagRenewal ==
  JFlag(<<"c","o","n","t","r","a","c","t","o","r"," ","s","h","a","l","l"," ","i","n","d","e","m","n","i","f","y"," "," ","c","l","i","e","n","t"," ","u","p","o","n"," ","r","e","n","e","w","a","l">>,
        "low", <<>>, <<"A","d","d"," ","a"," ","c","a","p",".">>)

AIFlagArbitration ==
  JFlag(<<"D","i","s","p","u","t","e","s"," ","g","o"," ","t","o"," ","a","r","b","i","t","r","a","t","i","o","n">>,
        "low", <<"U","n","c","a","p","p","e","d",".">>, <<>>)

AIFlagPayment ==
  JFlag(<<"P","a","y","m","e","n","t"," ","i","s"," ","d","u","e"," ","i","n"," ","3","0"," ","d","a","y","s">>,
        "high", <<"L","a","t","e"," ","p","a","y","m","e","n","t",".">>, <<"A","d","d"," ","a"," ","c","a","p",".">>)

AIFlagChoices == {AIFlagRenewal, AIFlagArbitration, AIFlagPayment}

AISummary == <<"A","I"," ","r","e","v","i","e","w",".">>

\* Parsed answers that pass looksLikeSchema: every overall risk over every
\* flag list, then an empty summary, two flags whose clauses differ only
\* behind the characters norm keeps, an overlong summary and an empty clause.
AcceptedAnswers ==
  { JObject(r, AISummary, fl) : r \in Severities,
                                fl \in SeqsUpTo(AIFlagChoices, MaxAIFlags) }
  \cup
  { JObject("low", <<>>, <<>>),
    JObject("high", AISummary,
            <<JFlag(Rep("a", NormKeyChars) \o <<"x">>, "high",
                    <<"F","i","r","s","t",".">>, <<>>),
              JFlag(Rep("A", NormKeyChars) \o <<"y">>, "low",
                    <<>>, <<"S","e","c","o","n","d",".">>)>>),
    JObject("medium", Rep("s", SummaryMaxLength + 1), <<AIFlagPayment>>),
    JObject("low", AISummary, <<JFlag(<<>>, "high", <<>>, <<>>)>>) }

\* Parsed answers that do not.
RejectedAnswers ==
  { JNull,
    JObject("critical", <<>>, <<>>),
    [JObject("low", <<>>, <<>>) EXCEPT !.summary = [t |-> "number", s |-> <<>>]],
    [JObject("low", <<>>, <<>>) EXCEPT !.flags = [t |-> "undefined", items |-> <<>>]],
    JObject("high", <<>>, <<JFlag(<<>>, "severe", <<>>, <<>>)>>),
    JObject("high", <<>>, <<[AIFlagPayment EXCEPT !.t = "null"]>>),
    JObject("high", <<>>, <<[AIFlagPayment EXCEPT !.rationale = [t |-> "undefined", s |-> <<>>]]>>) }

\* What one request to the AI endpoint can come back with: a rejected fetch,
\* a non-2xx status, a body with no JSON text, JSON text that does not parse,
\* or a parsed value.
RemoteAnswers ==
  { [kind |-> k, parsed |-> JNull] : k \in {"reject", "http", "nojson", "badjson"} }
  \cup
  { [kind |-> "json", parsed |-> p] : p \in AcceptedAnswers \cup RejectedAnswers }

(***************************************************************************)
(* State of one analyze-contract request.                                  *)
(***************************************************************************)
VARIABLES
  pc,              \* where the handler stands
  envProvider,     \* AI_PROVIDER
  envApiKey,       \* whether OPENAI_API_KEY is set
  envModel,        \* OPENAI_MODEL
  source_text,     \* request body
  useAI,           \* request body, default true
  contractRow,     \* whether the contracts row was inserted
  ruleBased,       \* result of runRuleAnalyzer
  modCalls,        \* requests made to the moderation endpoint
  modFlagged,      \* a moderation result with flagged = true was received
  modCategories,   \* the categories object of that result, as received
  aiAttempt,       \* index into AttemptModels of the running attempt, else 0
  aiCallNo,        \* 1: first request of the attempt, 2: its retry, else 0
  aiLog,           \* the requests made to the AI endpoint, in order
  primaryErr,      \* code of the error of the first attempt, kept when thrown
  adapter,         \* "idle", "running", "returned" or "threw"
  aiResult,        \* what analyzeWithOpenAI returned
  aiRan,
  aiFallbackUsed,
  result,          \* step 5's result
  analysisRow,     \* the analyses row inserted
  flagRows,        \* number of flags rows inserted
  response,        \* the Response returned
  call,            \* a call of one of the library functions: its name and arguments
  ret              \* what that call returned

envVars == <<envProvider, envApiKey, envModel>>

reqVars == <<source_text, useAI>>

modVars == <<modCalls, modFlagged, modCategories>>

aiVars == <<aiAttempt, aiCallNo, aiLog, primaryErr, adapter, aiResult>>

stepVars == <<aiRan, aiFallbackUsed, result>>

dbVars == <<contractRow, analysisRow, flagRows>>

fnVars == <<call, ret>>

vars == <<pc, envVars, reqVars, ruleBased, modVars, aiVars, stepVars, dbVars, response,
          fnVars>>

NoResult == [overall_risk |-> "none", summary |-> <<>>, flags |-> <<>>]

NoRow == [saved |-> FALSE, overall_risk |-> "none", summary |-> <<>>,
          ai_fallback_used |-> FALSE]

NoResponse ==
  [kind |-> "none", status |-> 0, error |-> "", message |-> <<>>,
   overall_risk |-> "none", summary |-> <<>>, flags |-> <<>>,
   flags_ai |-> <<>>, flags_rule |-> <<>>,
   aiRan |-> FALSE, aiFallbackUsed |-> FALSE]

ErrorResponse(status, error) ==
  [NoResponse EXCEPT !.kind = "error", !.status = status, !.error = error]

trimmedText == trim(source_text)

NoReturn == [done |-> FALSE]

Returned(value) == [done |-> TRUE, value |-> value]

\* The analyze-contract handler as a request arrives.
HandlerInit ==
  /\ pc = "recv"
  /\ envProvider \in Providers
  /\ envApiKey \in BOOLEAN
  /\ envModel \in OpenAIModels
  /\ source_text = <<>>
  /\ useAI = TRUE
  /\ contractRow = FALSE
  /\ ruleBased = NoResult
  /\ modCalls = 0
  /\ modFlagged = FALSE
  /\ modCategories = <<>>
  /\ aiAttempt = 0
  /\ aiCallNo = 0
  /\ aiLog = <<>>
  /\ primaryErr = ""
  /\ adapter = "idle"
  /\ aiResult = NoResult
  /\ aiRan = FALSE
  /\ aiFallbackUsed = FALSE
  /\ result = NoResult
  /\ analysisRow = NoRow
  /\ flagRows = 0
  /\ response = NoResponse

Init ==
  /\ HandlerInit
  /\ call = [fn |-> "none"]
  /\ ret = NoReturn

Respond(r) == pc' = "done" /\ response' = r

(***************************************************************************)
(* The handler, one action per step between two awaits.                    *)
(***************************************************************************)
\* OPTIONS is answered at once, anything but POST is refused.
HandleMethod ==
  /\ pc = "recv"
  /\ \E method \in {"OPTIONS", "GET", "POST"} :
       IF method = "OPTIONS"
       THEN Respond([NoResponse EXCEPT !.kind = "preflight", !.status = 200])
       ELSE IF method # "POST"
       THEN Respond(ErrorResponse(405, "Method not allowed"))
       ELSE pc' = "auth" /\ UNCHANGED response
  /\ UNCHANGED <<fnVars, envVars, reqVars, ruleBased, modVars, aiVars, stepVars, dbVars>>

\* 1) Require authenticated user
Authenticate ==
  /\ pc = "auth"
  /\ \E authHeader \in BOOLEAN, userFound \in BOOLEAN :
       IF ~authHeader
       THEN Respond(ErrorResponse(401, "Authorization header required"))
       ELSE IF ~userFound
       THEN Respond(ErrorResponse(401, "Invalid authentication"))
       ELSE pc' = "validate" /\ UNCHANGED response
  /\ UNCHANGED <<fnVars, envVars, reqVars, ruleBased, modVars, aiVars, stepVars, dbVars>>

\* A validation that lets the empty text through.
ValidateAcceptsEmpty ==
  /\ pc = "validate"
  /\ \E text \in SourceTexts, ai \in BOOLEAN :
       /\ source_text' = text
       /\ useAI' = ai
       /\ IF Len(text) > MAX_ANALYZE_CHARS
          THEN Respond(ErrorResponse(413, "Text too long"))
          ELSE pc' = "cooldown" /\ UNCHANGED response
  /\ UNCHANGED <<fnVars, envVars, ruleBased, modVars, aiVars, stepVars, dbVars>>

\* 2) Validate input and check limits.  A body that is not JSON makes
\* req.json() throw, which the outer catch answers with 500.
Validate ==
  /\ pc = "validate"
  /\ \E bodyParses \in BOOLEAN, text \in SourceTexts, ai \in BOOLEAN :
       IF ~bodyParses
       THEN /\ Respond(ErrorResponse(500, "Internal server error"))
            /\ UNCHANGED reqVars
       ELSE /\ source_text' = text
            /\ useAI' = ai
            /\ IF Len(text) = 0
               THEN Respond(ErrorResponse(400, "Missing text"))
               ELSE IF Len(text) > MAX_ANALYZE_CHARS
               THEN Respond(ErrorResponse(413, "Text too long"))
               ELSE pc' = "cooldown" /\ UNCHANGED response
  /\ UNCHANGED <<fnVars, envVars, ruleBased, modVars, aiVars, stepVars, dbVars>>

\* 2b) Simple per-user cooldown: a recent analyses row, read without error.
CheckCooldown ==
  /\ pc = "cooldown"
  /\ \E rErr \in BOOLEAN, recent \in BOOLEAN :
       IF ~rErr /\ recent
       THEN Respond(ErrorResponse(429, "Too many requests"))
       ELSE pc' = "insertContract" /\ UNCHANGED response
  /\ UNCHANGED <<fnVars, envVars, reqVars, ruleBased, modVars, aiVars, stepVars, dbVars>>

\* 3) Insert CONTRACT row first, then 4) run the rule engine, which is
\* synchronous, and choose the path of step 5.
InsertContractAndRunRules ==
  /\ pc = "insertContract"
  /\ \E cErr \in BOOLEAN :
       IF cErr
       THEN /\ Respond(ErrorResponse(500, "Failed to save contract"))
            /\ UNCHANGED <<contractRow, ruleBased, result>>
       ELSE /\ contractRow' = TRUE
            /\ ruleBased' = runRuleAnalyzer(trimmedText)
            /\ UNCHANGED response
            /\ IF useAI
               THEN pc' = "moderate" /\ UNCHANGED result
               ELSE pc' = "insertAnalysis" /\ result' = ruleBased'
  /\ UNCHANGED <<fnVars, envVars, reqVars, modVars, aiVars, aiRan, aiFallbackUsed,
                 analysisRow, flagRows>>

\* A variant of the test that recognises no error.
isContentBlockedNever(code) == FALSE

\* The test of the handler's catch block.
isContentBlocked(code) == code = "CONTENT_BLOCKED"

BlockedResponse(categories) ==
  [ErrorResponse(400, "Content blocked") EXCEPT
     !.message = formatModerationMessage(categories)]

\* A variant of the catch block that answers an AI error with 500.
HandlerCatchFails(code, categories) ==
  /\ Respond(IF isContentBlocked(code)
             THEN BlockedResponse(categories)
             ELSE ErrorResponse(500, "Internal server error"))
  /\ UNCHANGED <<aiRan, aiFallbackUsed, result>>

\* catch (err) of step 5: a blocked content answers 400, any other error
\* falls back to the rule result.
HandlerCatch(code, categories) ==
  IF isContentBlocked(code)
  THEN /\ Respond(BlockedResponse(categories))
       /\ UNCHANGED <<aiRan, aiFallbackUsed, result>>
  ELSE /\ aiFallbackUsed' = TRUE
       /\ result' = ruleBased
       /\ pc' = "insertAnalysis"
       /\ UNCHANGED <<aiRan, response>>

\* A catch block that throws nothing again.
isModerationRethrownNever(code) == FALSE

\* The test of ensureSafeInput's catch block: what it throws again.
isModerationRethrown(code) == code = "CONTENT_BLOCKED"

\* The end of ensureSafeInput once a moderation body is in hand.
ModerationCheck(body) ==
  LET verdict == ModerationVerdict(body)
      flagged == Len(body.results) > 0 /\ body.results[1].flagged
  IN  /\ modFlagged' = flagged
      /\ modCategories' = IF flagged THEN body.results[1].categories ELSE <<>>
      /\ IF verdict.blocked /\ isModerationRethrown("CONTENT_BLOCKED")
         THEN HandlerCatch("CONTENT_BLOCKED", verdict.categories)
         ELSE pc' = "ai" /\ UNCHANGED <<stepVars, response>>

\* ensureSafeInput up to the answer to its first request.  Moderation runs
\* only for the openai provider; a missing API key is caught and lets the
\* text through.
Moderate ==
  /\ pc = "moderate"
  /\ IF envProvider # "openai" \/ ~envApiKey
     THEN /\ pc' = "ai"
          /\ UNCHANGED <<modVars, stepVars, response>>
     ELSE /\ modCalls' = modCalls + 1
          /\ \E failed \in BOOLEAN, body \in ModerationBodies :
               IF failed
               THEN /\ pc' = "moderateRetry"
                    /\ UNCHANGED <<modFlagged, modCategories, stepVars, response>>
               ELSE ModerationCheck(body)
  /\ UNCHANGED <<fnVars, envVars, reqVars, ruleBased, aiVars, dbVars>>

\* The second moderation request, with the fallback moderation model; its
\* failure is caught and lets the text through.
ModerateRetry ==
  /\ pc = "moderateRetry"
  /\ modCalls' = modCalls + 1
  /\ \E failed \in BOOLEAN, body \in ModerationBodies :
       IF failed
       THEN /\ pc' = "ai"
            /\ UNCHANGED <<modFlagged, modCategories, stepVars, response>>
       ELSE ModerationCheck(body)
  /\ UNCHANGED <<fnVars, envVars, reqVars, ruleBased, aiVars, dbVars>>

\* One entry of aiLog.
AICall(attempt, model, retry) ==
  [attempt |-> attempt, model |-> model, responsesApi |-> isResponses(model),
   retry |-> retry, outcome |-> "pending"]

Settle(log, outcome) == [log EXCEPT ![Len(log)].outcome = outcome]

\* The model analyzeWithOpenAI runs with.
model == SanitizedModel(ConfiguredModel(envModel))

truncated == Len(trimmedText) > MAX

\* analyzeWithOpenAI throws: the handler catches.
AdapterThrows(code) ==
  /\ adapter' = "threw"
  /\ HandlerCatch(code, <<>>)

\* runAIAnalysis -> analyzeWithOpenAI up to its first request: the provider
\* check, getAIConfig, then the first request of the primary attempt.
AIStart ==
  /\ pc = "ai"
  /\ IF envProvider # "openai"
     THEN /\ AdapterThrows("AI_ERROR")
          /\ UNCHANGED <<aiAttempt, aiCallNo, aiLog, primaryErr, aiResult>>
     ELSE IF ~envApiKey
     THEN /\ AdapterThrows("")
          /\ UNCHANGED <<aiAttempt, aiCallNo, aiLog, primaryErr, aiResult>>
     ELSE /\ adapter' = "running"
          /\ aiAttempt' = 1
          /\ aiCallNo' = 1
          /\ aiLog' = Append(aiLog, AICall(1, AttemptModels(model)[1], FALSE))
          /\ pc' = "aiWait"
          /\ UNCHANGED <<primaryErr, aiResult, stepVars, response>>
  /\ UNCHANGED <<fnVars, envVars, reqVars, ruleBased, modVars, dbVars>>

\* The remote endpoint answers the pending request, and the adapter and the
\* handler run on to the next await.
AIReceive ==
  /\ pc = "aiWait"
  /\ \E answer \in RemoteAnswers :
       LET step == runAttemptStep(answer, aiCallNo)
           err1 == IF aiAttempt = 1 THEN step.code ELSE primaryErr
       IN
         \/ /\ step.kind = "return"
            /\ aiLog' = Settle(aiLog, "conforming")
            /\ adapter' = "returned"
            /\ aiResult' = AdapterResult(answer.parsed, truncated)
            /\ aiRan' = TRUE
            /\ result' = mergeResults(ruleBased, aiResult')
            /\ pc' = "insertAnalysis"
            /\ aiAttempt' = 0
            /\ aiCallNo' = 0
            /\ primaryErr' = ""
            /\ UNCHANGED <<aiFallbackUsed, response>>
         \/ /\ step.kind = "retry"
            /\ aiLog' = Append(Settle(aiLog, "nonconforming"),
                               AICall(aiAttempt, AttemptModels(model)[aiAttempt], TRUE))
            /\ aiCallNo' = 2
            /\ UNCHANGED <<pc, aiAttempt, primaryErr, adapter, aiResult, stepVars, response>>
         \/ /\ step.kind = "throw"
            /\ aiAttempt < Len(AttemptModels(model))
            /\ aiLog' = Append(Settle(aiLog, IF callOpenAIJSON(answer).threw
                                             THEN "threw" ELSE "nonconforming"),
                               AICall(aiAttempt + 1, AttemptModels(model)[aiAttempt + 1], FALSE))
            /\ aiAttempt' = aiAttempt + 1
            /\ aiCallNo' = 1
            /\ primaryErr' = err1
            /\ UNCHANGED <<pc, adapter, aiResult, stepVars, response>>
         \/ /\ step.kind = "throw"
            /\ aiAttempt >= Len(AttemptModels(model))
            /\ aiLog' = Settle(aiLog, IF callOpenAIJSON(answer).threw
                                      THEN "threw" ELSE "nonconforming")
            /\ primaryErr' = err1
            /\ AdapterThrows(err1)
            /\ aiAttempt' = 0
            /\ aiCallNo' = 0
            /\ UNCHANGED aiResult
  /\ UNCHANGED <<fnVars, envVars, reqVars, ruleBased, modVars, dbVars>>

\* 6) Insert ANALYSIS row
InsertAnalysis ==
  /\ pc = "insertAnalysis"
  /\ \E aErr \in BOOLEAN :
       IF aErr
       THEN /\ Respond(ErrorResponse(500, "Failed to save analysis"))
            /\ UNCHANGED analysisRow
       ELSE /\ analysisRow' = [saved |-> TRUE,
                               overall_risk |-> result.overall_risk,
                               summary |-> result.summary,
                               ai_fallback_used |-> aiFallbackUsed]
            /\ pc' = "insertFlags"
            /\ UNCHANGED response
  /\ UNCHANGED <<fnVars, envVars, reqVars, ruleBased, modVars, aiVars, stepVars,
                 contractRow, flagRows>>

\* 7) Bulk insert FLAGS, whose error is only logged, and 8) respond 200.
InsertFlagsAndRespond ==
  /\ pc = "insertFlags"
  /\ \E fErr \in BOOLEAN :
       flagRows' = IF Len(result.flags) > 0 /\ ~fErr THEN Len(result.flags) ELSE 0
  /\ Respond([kind |-> "analysis", status |-> 200, error |-> "", message |-> <<>>,
              overall_risk |-> result.overall_risk,
              summary |-> result.summary,
              flags |-> result.flags,
              flags_ai |-> IF aiRan THEN aiResult.flags ELSE <<>>,
              flags_rule |-> ruleBased.flags,
              aiRan |-> aiRan,
              aiFallbackUsed |-> aiFallbackUsed])
  /\ UNCHANGED <<fnVars, envVars, reqVars, ruleBased, modVars, aiVars, stepVars,
                 contractRow, analysisRow>>

Next ==
  \/ HandleMethod
  \/ Authenticate
  \/ Validate
  \/ CheckCooldown
  \/ InsertContractAndRunRules
  \/ Moderate
  \/ ModerateRetry
  \/ AIStart
  \/ AIReceive
  \/ InsertAnalysis
  \/ InsertFlagsAndRespond

Spec == Init /\ [][Next]_vars

\* The positions of the handler.
PcValues ==
  {"recv", "auth", "validate", "cooldown", "insertContract", "moderate",
   "moderateRetry", "ai", "aiWait", "insertAnalysis", "insertFlags", "done"}

\* The handler moves on from every position but the wait for the AI
\* endpoint: the runtime schedules it, and the database and the moderation
\* endpoint answer.  Every step other than AIReceive is enabled exactly at
\* its own position and leaves it, so the step is stated on pc.
HandlerProgress == pc \notin {"aiWait", "done"} /\ pc' \in PcValues

\* The AI endpoint may never answer: callOpenAIJSON's fetch carries no
\* timeout and no abort signal.  Every other step is taken.
FairSpec == Init /\ [][Next]_vars /\ WF_pc(HandlerProgress)

(***************************************************************************)
(* Span locator (_shared/config/rules.ts).                                 *)
(***************************************************************************)
RISK_KEYWORDS ==
  << <<"i","n","d","e","m","n">>,
     <<"i","n","d","e","m","n","i","f">>,
     <<"i","n","d","e","m","n","i","t","y">>,
     <<"l","i","a","b","i","l","i","t","y">>,
     <<"l","i","a","b","l","e">>,
     <<"a","r","b","i","t","r","a","t","i","o","n">>,
     <<"a","r","b","i","t","r","a","t","e">>,
     <<"j","u","r","i","s","d","i","c","t","i","o","n">>,
     <<"j","u","r","i","s","d","i","c","t">>,
     <<"r","e","n","e","w">>,
     <<"r","e","n","e","w","a","l">>,
     <<"a","u","t","o","m","a","t","i","c">>,
     <<"a","s","s","i","g","n","m","e","n","t">>,
     <<"a","s","s","i","g","n">>,
     <<"c","o","n","f","i","d","e","n","t","i","a","l">>,
     <<"n","d","a">>,
     <<"n","o","n","-","d","i","s","c","l","o","s","u","r","e">>,
     <<"w","a","r","r","a","n","t","y">>,
     <<"w","a","r","r","a","n","t">>,
     <<"g","u","a","r","a","n","t","e","e">>,
     <<"f","o","r","c","e"," ","m","a","j","e","u","r","e">>,
     <<"a","c","t"," ","o","f"," ","g","o","d">>,
     <<"g","o","v","e","r","n","i","n","g"," ","l","a","w">>,
     <<"a","p","p","l","i","c","a","b","l","e"," ","l","a","w">>,
     <<"n","o","n","c","o","m","p","e","t","e">>,
     <<"n","o","n","-","c","o","m","p","e","t","e">>,
     <<"r","e","s","t","r","a","i","n","t">>,
     <<"a","s"," ","i","s">>,
     <<"a","s","-","i","s">>,
     <<"i","n","t","e","l","l","e","c","t","u","a","l"," ","p","r","o","p","e","r","t","y">>,
     <<"i","p"," ","o","w","n","e","r","s","h","i","p">>,
     <<"c","o","p","y","r","i","g","h","t">>,
     <<"t","r","a","d","e","m","a","r","k">>,
     <<"t","e","r","m","i","n","a","t","i","o","n"," ","f","o","r"," ","c","o","n","v","e","n","i","e","n","c","e">>,
     <<"t","e","r","m","i","n","a","t","e">>,
     <<"b","r","e","a","c","h">> >>

\* splitSentences: the sentences sbd returns for a text.  sbd (1.0.19) is
\* imported, not part of the repository: with preserve_whitespace off it
\* cuts the text into words, ends a sentence at a newline and, subject to
\* its abbreviation heuristics, after a word that ends in . ! or ?, and
\* joins the words of each sentence with single spaces.  Every subset of
\* the places the heuristics decide on is a possible result.
SentenceSplits(text) ==
  IF trim(text) = <<>> THEN { <<>> }
  ELSE
    LET words == Words(text)
        n     == Len(words)
        lineEnds == {k \in 1..(n - 1) :
                       \E i \in 1..Len(text) :
                         /\ text[i] = "\n"
                         /\ Len(Words(SubSeq(text, 1, i))) = k}
        maybe == {k \in 1..(n - 1) : words[k][Len(words[k])] \in {".", "!", "?"}}
                   \ lineEnds
        Cut(ends) ==
          LET last == SelectSeq(Indices(n), LAMBDA k : k \in ends \/ k = n)
          IN  [j \in 1..Len(last) |->
                 JoinWords(text, IF j = 1 THEN 1 ELSE last[j - 1] + 1, last[j])]
    IN  {Cut(lineEnds \cup chosen) : chosen \in SUBSET maybe}

SpanContextPadding == 150

MiddleWords == 12

SpanClauseChars == 200

\* start: null, end: null.
NoSpan == <<>>

getContext(source, start, end) ==
  LET contextStart == Max(0, start - SpanContextPadding)
      contextEnd   == Min(Len(source), end + SpanContextPadding)
      context      == substring(source, contextStart, contextEnd)
      left         == IF contextStart > 0 THEN Ellipsis \o context ELSE context
      both         == IF contextEnd < Len(source) THEN left \o Ellipsis ELSE left
  IN  trim(both)

\* extractSpan(source, clause), given the sentences splitSentences(source)
\* returns when the third tier asks for them.
extractSpan(source, clause, sentences) ==
  IF source = <<>> \/ clause = <<>>
  THEN [span |-> NoSpan, context |-> <<>>]
  ELSE
    LET sourceNorm  == toLowerCase(source)
        clauseNorm  == toLowerCase(trim(clause))
        exactIndex  == indexOf(sourceNorm, clauseNorm)
        words       == Words(clauseNorm)
        startIdx    == (Len(words) - MiddleWords) \div 2
        middleWords == JoinWords(clauseNorm, startIdx + 1, startIdx + MiddleWords)
        middleIndex == indexOf(sourceNorm, middleWords)
        hasRiskKeyword(i) ==
          \E k \in DOMAIN RISK_KEYWORDS :
            indexOf(toLowerCase(sentences[i]), toLowerCase(RISK_KEYWORDS[k])) # -1
        hits == SelectSeq(Indices(Len(sentences)), LAMBDA i :
                  hasRiskKeyword(i) /\ indexOf(source, sentences[i]) # -1)
        i == hits[1]
        contextJoined ==
          (IF i > 1 THEN sentences[i - 1] \o <<" ">> ELSE <<>>)
          \o sentences[i]
          \o (IF i < Len(sentences) THEN <<" ">> \o sentences[i + 1] ELSE <<>>)
    IN  IF exactIndex # -1
        THEN [span    |-> <<exactIndex, exactIndex + Len(clauseNorm)>>,
              context |-> getContext(source, exactIndex, exactIndex + Len(clauseNorm))]
        ELSE IF Len(words) >= MiddleWords /\ middleIndex # -1
        THEN [span    |-> <<middleIndex, middleIndex + Len(middleWords)>>,
              context |-> getContext(source, middleIndex, middleIndex + Len(middleWords))]
        ELSE IF hits # <<>>
        THEN [span    |-> <<indexOf(source, sentences[i]),
                            indexOf(source, sentences[i]) + Len(sentences[i])>>,
              context |-> trim(contextJoined)]
        ELSE [span    |-> NoSpan,
              context |-> IF Len(clause) > SpanClauseChars
                          THEN substring(clause, 0, SpanClauseChars) \o Ellipsis
                          ELSE clause]

(***************************************************************************)
(* Redline generator (the api-redline handler).                            *)
(***************************************************************************)
\* An escapeHtml that leaves '>' as it is.
escapeHtmlKeepsGt(text) ==
  Concat([i \in 1..Len(text) |->
            CASE text[i] = "&"  -> <<"&","a","m","p",";">>
              [] text[i] = "<"  -> <<"&","l","t",";">>
              [] text[i] = "\"" -> <<"&","q","u","o","t",";">>
              [] text[i] = "'"  -> <<"&","#","3","9",";">>
              [] OTHER          -> <<text[i]>>])

escapeHtml(text) ==
  Concat([i \in 1..Len(text) |->
            CASE text[i] = "&"  -> <<"&","a","m","p",";">>
              [] text[i] = "<"  -> <<"&","l","t",";">>
              [] text[i] = ">"  -> <<"&","g","t",";">>
              [] text[i] = "\"" -> <<"&","q","u","o","t",";">>
              [] text[i] = "'"  -> <<"&","#","3","9",";">>
              [] OTHER          -> <<text[i]>>])

\* clause + " " + "(" + suggestion + ")".
FallbackRewrite(clause, suggestion) ==
  clause \o <<" ">> \o <<"(">> \o suggestion \o <<")">>

\* The rewrite for an answer of the chat completions endpoint: the rewrite
\* field of the parsed content when it is a non-empty string, else the
\* fallback (HTTP error, exception, content that does not parse, or a
\* parsed value without such a field).
RewriteFromAnswer(clause, suggestion, answer) ==
  IF /\ answer.kind = "parsed"
     /\ answer.rewrite.t = "string"
     /\ answer.rewrite.s # <<>>
  THEN answer.rewrite.s
  ELSE FallbackRewrite(clause, suggestion)

MaxDiffParts == 2

\* diffWords(clause, rewrite): the change objects the diff package returns.
\* The package (diff 8.0.2) is imported, not part of the repository.  What
\* is taken from its contract: it compares the words of the two strings
\* and ignores whitespace in the comparison, so two strings with the same
\* words yield unchanged text only.  Everything else is left open: up to
\* MaxDiffParts change objects in order, each carrying a run of whole words
\* (with the whitespace between them) of the old string (removed), of the
\* new one (added) or of either (unchanged).
diffWords(oldStr, newStr) ==
  LET WordRuns(s) ==
        LET starts == {i \in 1..Len(s) : ~IsSpace(s[i]) /\ (i = 1 \/ IsSpace(s[i - 1]))}
            ends   == {i \in 1..Len(s) :
                         ~IsSpace(s[i]) /\ (i = Len(s) \/ IsSpace(s[i + 1]))}
        IN  UNION {{SubSeq(s, i, j) : j \in {e \in ends : e >= i}} : i \in starts}
      unchanged ==
        {[kind |-> "common", value |-> v] : v \in WordRuns(oldStr) \cup WordRuns(newStr)}
      changed ==
        {[kind |-> "removed", value |-> v] : v \in WordRuns(oldStr)}
        \cup {[kind |-> "added", value |-> v] : v \in WordRuns(newStr)}
  IN  IF Words(oldStr) = Words(newStr)
      THEN SeqsUpTo(unchanged, MaxDiffParts)
      ELSE SeqsUpTo(unchanged \cup changed, MaxDiffParts)

\* The html the markup loop builds from the change objects.
RedlineHtml(diff) ==
  Concat([k \in 1..Len(diff) |->
            CASE diff[k].kind = "removed" ->
                   <<"<","d","e","l",">">> \o escapeHtml(diff[k].value)
                     \o <<"<","/","d","e","l",">">>
              [] diff[k].kind = "added" ->
                   <<"<","i","n","s",">">> \o escapeHtml(diff[k].value)
                     \o <<"<","/","i","n","s",">">>
              [] OTHER -> escapeHtml(diff[k].value)])

\* The plainDiff of the same loop.
RedlinePlainDiff(diff) ==
  Concat([k \in 1..Len(diff) |->
            CASE diff[k].kind = "removed" -> <<"[","-">> \o diff[k].value \o <<"-","]">>
              [] diff[k].kind = "added"   -> <<"{","+">> \o diff[k].value \o <<"+","}">>
              [] OTHER -> diff[k].value])

\* No request to the chat completions endpoint was made.
NoAnswer == [kind |-> "none", rewrite |-> [t |-> "undefined", s |-> <<>>]]

\* A Response of the handler: an error, or (status 200) the rewrite with its
\* html and plain_diff, kept with the answer of the AI endpoint and the
\* change objects they were built from.
RedlineResponse(status, error, answer, rewrite, diff) ==
  [status |-> status, error |-> error, answer |-> answer, rewrite |-> rewrite,
   diff |-> diff, html |-> RedlineHtml(diff), plain_diff |-> RedlinePlainDiff(diff)]

(***************************************************************************)
(* Keyword highlighter (highlightKeywords of _shared/config/rules.ts and   *)
(* highlightText of the client).                                           *)
(***************************************************************************)
\* text.replace(new RegExp('\\b(' + alternatives.join('|') + ')\\b', 'gi'),
\* '<mark>$1</mark>') for escaped alternatives: from left to right, at each
\* offset the first alternative that stands there between two \b, matches
\* not overlapping, an empty match followed by a step of one character.
RECURSIVE MarkMatches(_, _, _)
MarkMatches(text, alternatives, from) ==
  LET WordChar(c) ==
        \/ \E i \in DOMAIN UpperChars : c = UpperChars[i] \/ c = LowerChars[i]
        \/ \E i \in DOMAIN DigitChars : c = DigitChars[i]
        \/ c = "_"
      \* \b at offset q: a word character on exactly one side.
      WordBoundary(q) ==
        (q >= 1 /\ WordChar(text[q])) # (q < Len(text) /\ WordChar(text[q + 1]))
      StandsAt(k, p) ==
        /\ p + Len(alternatives[k]) <= Len(text)
        /\ toLowerCase(substring(text, p, p + Len(alternatives[k])))
             = toLowerCase(alternatives[k])
        /\ WordBoundary(p)
        /\ WordBoundary(p + Len(alternatives[k]))
      starts == {p \in from..Len(text) : \E k \in DOMAIN alternatives : StandsAt(k, p)}
      p == CHOOSE q \in starts : \A r \in starts : q <= r
      k == CHOOSE i \in DOMAIN alternatives :
             StandsAt(i, p) /\ \A j \in 1..(i - 1) : ~StandsAt(j, p)
      n == Len(alternatives[k])
  IN  IF from > Len(text) \/ starts = {} THEN substring(text, from, Len(text))
      ELSE substring(text, from, p)
             \o <<"<","m","a","r","k",">">> \o substring(text, p, p + n)
             \o <<"<","/","m","a","r","k",">">>
             \o (IF n = 0
                 THEN substring(text, p, p + 1) \o MarkMatches(text, alternatives, p + 1)
                 ELSE MarkMatches(text, alternatives, p + n))

\* A highlighter that marks the whole text.
highlightKeywordsMarksAll(text, keywords) ==
  <<"<","m","a","r","k",">">> \o text \o <<"<","/","m","a","r","k",">">>

highlightKeywords(text, keywords) ==
  IF text = <<>> \/ keywords = <<>> THEN text
  ELSE
    LET longest == CHOOSE n \in 0..Len(text) + 64 :
                     /\ \A i \in DOMAIN keywords : Len(keywords[i]) <= n
                     /\ \E i \in DOMAIN keywords : Len(keywords[i]) = n
        sortedKeywords ==
          Concat([j \in 1..(longest + 1) |->
                    SelectSeq(keywords, LAMBDA kw : Len(kw) = longest + 1 - j)])
        RECURSIVE Loop(_, _)
        Loop(marked, i) ==
          IF i > Len(sortedKeywords) THEN marked
          ELSE IF trim(sortedKeywords[i]) = <<>> THEN Loop(marked, i + 1)
          ELSE Loop(MarkMatches(marked, <<sortedKeywords[i]>>, 0), i + 1)
    IN  Loop(text, 1)

highlightText(text, keywords) ==
  IF text = <<>> \/ keywords = <<>> THEN text
  ELSE IF Len(keywords) = 1 /\ keywords[1] = <<>> THEN text
  ELSE MarkMatches(text, keywords, 0)

(***************************************************************************)
(* The flag normaliser of the pages (safeFlag).                            *)
(***************************************************************************)
\* A flag as it comes from the database or the API: a value that may be null
\* or undefined, each of its fields present with some type or absent.
RawFlags ==
  LET Absent == {[t |-> "undefined", s |-> <<>>], [t |-> "null", s |-> <<>>]}
      Texts  == Absent \cup {JText(<<>>), JText(<<"F","e","e","s">>)}
  IN  { [t |-> k, clause |-> c, severity |-> sv, rationale |-> ra, suggestion |-> su,
         span_start |-> sp, span_end |-> se, context |-> cx, keywords |-> kw] :
          k \in {"object"}, c \in Texts,
          sv \in Absent \cup {JText(<<"h","i","g","h">>), JText(<<"s","e","v","e","r","e">>)},
          ra \in Texts, su \in {[t |-> "null", s |-> <<>>], JText(<<"F","e","e","s">>)},
          sp \in {[t |-> "undefined", n |-> 0], [t |-> "number", n |-> 4],
                  [t |-> "string", n |-> 4]},
          se \in {[t |-> "null", n |-> 0], [t |-> "number", n |-> 9]},
          cx \in {[t |-> "undefined", s |-> <<>>], JText(<<"F","e","e","s"," ","a","r","e"," ","d","u","e">>)},
          kw \in {[t |-> "undefined", items |-> <<>>],
                  [t |-> "string", items |-> << <<"f","e","e">> >>],
                  [t |-> "array", items |-> << <<"f","e","e">>, <<>> >>]} }
  \cup
  { [t |-> k, clause |-> u, severity |-> u, rationale |-> u, suggestion |-> u,
     span_start |-> [t |-> "undefined", n |-> 0],
     span_end |-> [t |-> "undefined", n |-> 0], context |-> u,
     keywords |-> [t |-> "undefined", items |-> <<>>]] :
      k \in {"null", "undefined"}, u \in {[t |-> "undefined", s |-> <<>>]} }

\* f?.x ?? dflt for the text fields; typeof f?.x === 'number' ? f?.x : null;
\* Array.isArray(f?.keywords) ? f.keywords.filter(Boolean) : [].
normalizeFlag(f) ==
  LET Field(x, dflt) == IF x.t \in {"undefined", "null"} THEN dflt ELSE x
  IN  [clause     |-> Field(f.clause, JText(<<>>)),
       severity   |-> Field(f.severity, JText(<<"l","o","w">>)),
       rationale  |-> Field(f.rationale, JText(<<>>)),
       suggestion |-> Field(f.suggestion, JText(<<>>)),
       span_start |-> IF f.span_start.t = "number" THEN f.span_start
                      ELSE [t |-> "null", n |-> 0],
       span_end   |-> IF f.span_end.t = "number" THEN f.span_end
                      ELSE [t |-> "null", n |-> 0],
       context    |-> Field(f.context, JText(<<>>)),
       keywords   |-> IF f.keywords.t = "array"
                      THEN SelectSeq(f.keywords.items, LAMBDA kw : kw # <<>>)
                      ELSE <<>>]

(***************************************************************************)
(* The library functions called on their own.  The handler stands still    *)
(* at the arrival of a request; a function is called with arguments drawn  *)
(* from a bounded set and returns.                                         *)
(***************************************************************************)
MaxPhrases == 3

\* Phrases a contract is made of: without a pattern, with a high one in
\* capitals, with two low ones, with a medium one twice, with a high one.
RulePhrases ==
  << <<"P","a","y","m","e","n","t"," ","i","s"," ","d","u","e"," ","i","n"," ","3","0"," ","d","a","y","s","."," ">>,
     <<"V","e","n","d","o","r"," ","s","h","a","l","l"," ","I","N","D","E","M","N","I","F","Y"," ","C","l","i","e","n","t","!"," ">>,
     <<"A","u","t","o","-","r","e","n","e","w"," ","u","n","l","e","s","s"," ","r","e","n","e","w","a","l"," ","i","s"," ","d","e","c","l","i","n","e","d","?"," ">>,
     <<"A","r","b","i","t","r","a","t","i","o","n",","," ","t","h","e","n"," ","a","r","b","i","t","r","a","t","i","o","n"," ","a","g","a","i","n",".",".","."," ">>,
     <<"E","a","c","h"," ","p","a","r","t","y"," ","k","e","e","p","s"," ","i","t","s"," ","n","o","n","c","o","m","p","e","t","e","."," ">> >>

\* A renewing agreement with an indemnity, its sentences ending in ellipses.
TextAutomaticRenewal ==
  <<"T","h","i","s"," ","A","g","r","e","e","m","e","n","t"," ","s","h","a","l","l"," ","a","u","t","o","m","a","t","i","c","a","l","l","y"," ","r","e","n","e","w"," ","f","o","r"," ","s","u","c","c","e","s","s","i","v","e"," ","o","n","e","-","y","e","a","r"," ","t","e","r","m","s",".",".","."," ","D","e","v","e","l","o","p","e","r"," ","a","g","r","e","e","s"," ","t","o"," ","i","n","d","e","m","n","i","f","y"," ","a","n","d"," ","h","o","l","d"," ","h","a","r","m","l","e","s","s"," ","C","l","i","e","n","t",".",".",".">>

\* A sale as is after a run of seven sentence delimiters.
TextDelimiterRun ==
  <<"R","e","a","l","l","y","?","!","?","!","?","!","?"," ","S","o","l","d"," ","a","s"," ","i","s","."," ","B","u","y","e","r"," ","p","a","y","s",".">>

MaxSpanChars == 3

\* source: empty; without a risk keyword; with one in its second sentence;
\* with one in a sentence that holds a double space; a one-sentence
\* indemnity; and an indemnity far from both ends of the text.
SpanSources ==
  << <<>>,
     <<"F","e","e","s"," ","a","r","e"," ","d","u","e"," ","i","n"," ","3","0"," ","d","a","y","s",".">>,
     <<"F","e","e","s"," ","a","r","e"," ","d","u","e","."," ","E","i","t","h","e","r"," ","p","a","r","t","y"," ","m","a","y"," ","T","e","r","m","i","n","a","t","e","."," ","N","o","t","i","c","e","s"," ","g","o"," ","b","y"," ","m","a","i","l",".">>,
     <<"F","e","e","s"," ","a","r","e"," ","d","u","e","."," ","V","e","n","d","o","r"," ","s","h","a","l","l"," "," ","a","s","s","i","g","n"," ","n","o","t","h","i","n","g",".">>,
     <<"D","e","v","e","l","o","p","e","r"," ","s","h","a","l","l"," ","i","n","d","e","m","n","i","f","y"," ","a","n","d"," ","h","o","l","d"," ","h","a","r","m","l","e","s","s"," ","t","h","e"," ","C","l","i","e","n","t"," ","f","r","o","m"," ","a","n","y"," ","a","n","d"," ","a","l","l"," ","c","l","a","i","m","s",".">>,
     [k \in 1..(SpanContextPadding + 10) |-> IF k % 2 = 1 THEN "x" ELSE " "]
       \o <<"I","n","d","e","m","n","i","f","y">>
       \o [k \in 1..(SpanContextPadding + 10) |-> IF k % 2 = 1 THEN " " ELSE "y"] >>

\* clause: fourteen words whose middle twelve stand in the fifth source; a
\* clause found nowhere; a sentence of the third source in capitals; a
\* clause longer than SpanClauseChars.
SpanClauses ==
  { <<"T","h","e"," ","d","e","v","e","l","o","p","e","r"," ","s","h","a","l","l"," ","i","n","d","e","m","n","i","f","y"," ","a","n","d"," ","h","o","l","d"," ","h","a","r","m","l","e","s","s"," ","t","h","e"," ","c","l","i","e","n","t"," ","f","r","o","m"," ","a","n","y"," ","a","n","d"," ","a","l","l"," ","l","o","s","s","e","s">>,
    <<"N","o"," ","s","u","c","h"," ","w","o","r","d","s">>,
    <<"E","I","T","H","E","R"," ","P","A","R","T","Y"," ","M","A","Y"," ","T","E","R","M","I","N","A","T","E",".">>,
    Rep("z", SpanClauseChars + 1) }

MaxKeywords == 2

\* text and the keywords of the highlighters; an empty and a blank keyword.
HighlightInputs ==
  [text    |-> { <<>>, <<"L","a","t","e"," ","f","e","e"," ","a","p","p","l","i","e","s">>, <<"f","e","e",","," ","F","E","E"," ","a","n","d"," ","c","o","f","f","e","e">>, <<"A"," ","l","a","t","e","-","f","e","e"," ","(","m","a","r","k",")">> },
   keyword |-> { <<>>, <<" ">>, <<"f","e","e">>, <<"l","a","t","e"," ","f","e","e">>, <<"m","a","r","k">> }]

\* runRuleAnalyzer is called with up to MaxPhrases phrases in a row, with
\* the renewing agreement or with the sale as is; extractSpan with a source and a clause that is a
\* piece of it of up to MaxSpanChars characters (the empty one included) or
\* one of SpanClauses; a highlighter with a text and up to MaxKeywords
\* keywords; normalizeFlag with a flag of RawFlags.
LibraryInit ==
  /\ HandlerInit
  /\ envProvider = "openai"
  /\ envApiKey = TRUE
  /\ envModel = <<>>
  /\ ret = NoReturn
  /\ call \in
       LET Pieces(s) ==
             UNION {{SubSeq(s, a, a + n - 1) :
                       n \in {k \in 0..MaxSpanChars : a + k - 1 <= Len(s)}} :
                     a \in 1..(Len(s) + 1)}
       IN  {[fn |-> "runRuleAnalyzer", source_text |-> t] :
              t \in {Concat([i \in DOMAIN ks |-> RulePhrases[ks[i]]]) :
                       ks \in SeqsUpTo(DOMAIN RulePhrases, MaxPhrases)}
                    \cup {TextAutomaticRenewal, TextDelimiterRun}}
           \cup
           UNION {{[fn |-> "extractSpan", source |-> SpanSources[i], clause |-> c] :
                     c \in Pieces(SpanSources[i]) \cup SpanClauses} :
                   i \in DOMAIN SpanSources}
           \cup
           {[fn |-> f, text |-> t, keywords |-> ks] :
              f \in {"highlightKeywords", "highlightText"},
              t \in HighlightInputs.text,
              ks \in SeqsUpTo(HighlightInputs.keyword, MaxKeywords)}
           \cup
           {[fn |-> "normalizeFlag", f |-> f] : f \in RawFlags}

CallRunRuleAnalyzer ==
  /\ call.fn = "runRuleAnalyzer"
  /\ ~ret.done
  /\ ret' = Returned(runRuleAnalyzer(call.source_text))
  /\ UNCHANGED <<call, pc, envVars, reqVars, ruleBased, modVars, aiVars, stepVars,
                 dbVars, response>>

CallExtractSpan ==
  /\ call.fn = "extractSpan"
  /\ ~ret.done
  /\ \E sentences \in SentenceSplits(call.source) :
       ret' = Returned(extractSpan(call.source, call.clause, sentences))
  /\ UNCHANGED <<call, pc, envVars, reqVars, ruleBased, modVars, aiVars, stepVars,
                 dbVars, response>>

CallHighlightKeywords ==
  /\ call.fn = "highlightKeywords"
  /\ ~ret.done
  /\ ret' = Returned(highlightKeywords(call.text, call.keywords))
  /\ UNCHANGED <<call, pc, envVars, reqVars, ruleBased, modVars, aiVars, stepVars,
                 dbVars, response>>

CallHighlightText ==
  /\ call.fn = "highlightText"
  /\ ~ret.done
  /\ ret' = Returned(highlightText(call.text, call.keywords))
  /\ UNCHANGED <<call, pc, envVars, reqVars, ruleBased, modVars, aiVars, stepVars,
                 dbVars, response>>

CallNormalizeFlag ==
  /\ call.fn = "normalizeFlag"
  /\ ~ret.done
  /\ ret' = Returned(normalizeFlag(call.f))
  /\ UNCHANGED <<call, pc, envVars, reqVars, ruleBased, modVars, aiVars, stepVars,
                 dbVars, response>>

LibraryNext ==
  \/ CallNormalizeFlag
  \/ CallRunRuleAnalyzer
  \/ CallExtractSpan
  \/ CallHighlightKeywords
  \/ CallHighlightText

LibrarySpec == LibraryInit /\ [][LibraryNext]_vars

(***************************************************************************)
(* The api-redline handler.                                                *)
(***************************************************************************)
\* clause and suggestion of the request body; the empty ones are refused.
RedlineInputs ==
  [clause     |-> { <<>>, <<"P","a","y"," ","<","b",">","n","o","w","<","/","b",">">>, <<"T","o","m"," "," ","&"," ","'","A","l","'">> },
   suggestion |-> { <<>>, <<">","\"","5","\"">> }]

\* What the chat completions request comes to: an HTTP error, an exception,
\* content that is not JSON, or parsed content whose rewrite field is a
\* string (of markup, of the clause with other spacing, or empty), a number
\* or missing.
RedlineAnswers ==
  {[kind |-> k, rewrite |-> [t |-> "undefined", s |-> <<>>]] :
     k \in {"httpError", "throws", "unparsable", "parsed"}}
  \cup {[kind |-> "parsed", rewrite |-> [t |-> "number", s |-> <<>>]]}
  \cup {[kind |-> "parsed", rewrite |-> JText(r)] :
          r \in { <<>>, <<"P","a","y"," ","<","/","d","e","l",">","l","a","t","e","r">>, <<"T","o","m"," ","&"," ","'","A","l","'">> }}

\* A request to api-redline: its method, its token and its body.
RedlineInit ==
  /\ HandlerInit
  /\ envProvider = "openai"
  /\ envModel = <<>>
  /\ ret = NoReturn
  /\ call \in
       {[fn |-> "api-redline", method |-> "POST", user |-> TRUE,
         clause |-> c, suggestion |-> s, useAI |-> u] :
          c \in RedlineInputs.clause, s \in RedlineInputs.suggestion, u \in BOOLEAN}
       \cup {[fn |-> "api-redline", method |-> mth, user |-> usr,
               clause |-> <<"x">>, suggestion |-> <<"y">>, useAI |-> FALSE] :
                mth \in {"POST", "GET"}, usr \in BOOLEAN}

\* Every path of the handler that makes no request to the AI endpoint.
RedlineRespond ==
  /\ call.fn = "api-redline"
  /\ pc = "recv"
  /\ ~(/\ call.method = "POST" /\ call.user
        /\ call.clause # <<>> /\ call.suggestion # <<>>
        /\ call.useAI /\ envApiKey)
  /\ pc' = "done"
  /\ IF call.method # "POST"
     THEN ret' = Returned(RedlineResponse(405, "Method not allowed", NoAnswer, <<>>, <<>>))
     ELSE IF ~call.user
     THEN ret' = Returned(RedlineResponse(401, "Invalid authentication", NoAnswer,
                                          <<>>, <<>>))
     ELSE IF call.clause = <<>> \/ call.suggestion = <<>>
     THEN ret' = Returned(RedlineResponse(400, "clause and suggestion are required",
                                          NoAnswer, <<>>, <<>>))
     ELSE LET rewrite == IF call.useAI
                         THEN FallbackRewrite(call.clause, call.suggestion)
                         ELSE call.clause
          IN  \E diff \in diffWords(call.clause, rewrite) :
                ret' = Returned(RedlineResponse(200, "", NoAnswer, rewrite, diff))
  /\ UNCHANGED <<call, envVars, reqVars, ruleBased, modVars, aiVars, stepVars,
                 dbVars, response>>

\* The request to the chat completions endpoint is made.
RedlineFetch ==
  /\ call.fn = "api-redline"
  /\ pc = "recv"
  /\ call.method = "POST" /\ call.user
  /\ call.clause # <<>> /\ call.suggestion # <<>>
  /\ call.useAI /\ envApiKey
  /\ pc' = "redlineFetch"
  /\ UNCHANGED <<fnVars, envVars, reqVars, ruleBased, modVars, aiVars, stepVars,
                 dbVars, response>>

\* The request is answered, or fails; the diff is built and returned.
RedlineReceive ==
  /\ call.fn = "api-redline"
  /\ pc = "redlineFetch"
  /\ pc' = "done"
  /\ \E answer \in RedlineAnswers :
       LET rewrite == RewriteFromAnswer(call.clause, call.suggestion, answer)
       IN  \E diff \in diffWords(call.clause, rewrite) :
             ret' = Returned(RedlineResponse(200, "", answer, rewrite, diff))
  /\ UNCHANGED <<call, envVars, reqVars, ruleBased, modVars, aiVars, stepVars,
                 dbVars, response>>

RedlineNext ==
  \/ RedlineRespond
  \/ RedlineFetch
  \/ RedlineReceive

RedlineSpec == RedlineInit /\ [][RedlineNext]_vars

(***************************************************************************)
(* The api-demo-analyze handler (supabase/functions/api-demo-analyze).     *)
(***************************************************************************)
MAX_CHARS == 12000

MinDemoChars == 50

\* A request to api-demo-analyze: its method, whether its IP is within the
\* cooldown, its body (parsable or not, source_text a string or not, useAI)
\* and ALLOW_DEMO_AI.
DemoInit ==
  /\ HandlerInit
  /\ envModel = <<>>
  /\ ret = NoReturn
  /\ call \in
       {[fn |-> "api-demo-analyze", method |-> "POST", limited |-> FALSE,
         parses |-> TRUE, isString |-> TRUE, source_text |-> t, useAI |-> u,
         allowDemoAI |-> a] :
          t \in {<<>>, TextArbitration, TextAutomaticRenewal, TextDelimiterRun \o TextDelimiterRun,
                 Rep("x", MAX_CHARS + 1)},
          u \in BOOLEAN, a \in BOOLEAN}
       \cup
       {[fn |-> "api-demo-analyze", method |-> mth, limited |-> l,
         parses |-> p, isString |-> s, source_text |-> TextAutomaticRenewal,
         useAI |-> TRUE, allowDemoAI |-> TRUE] :
          mth \in {"OPTIONS", "GET", "POST"}, l \in BOOLEAN, p \in BOOLEAN,
          s \in BOOLEAN}

\* "Always run rule-based analysis (as fallback or primary)", then the
\* response: the AI result when it ran, else the rule result.
DemoFinish(ran, ai) ==
  LET ruleResult == runRuleAnalyzer(call.source_text)
  IN  /\ ruleBased' = ruleResult
      /\ aiRan' = ran
      /\ Respond([NoResponse EXCEPT
                    !.kind = "analysis", !.status = 200,
                    !.overall_risk = IF ran THEN ai.overall_risk
                                     ELSE ruleResult.overall_risk,
                    !.summary = IF ~ran THEN ruleResult.summary
                                ELSE IF ai.summary = <<>>
                                THEN <<"A","I"," ","a","n","a","l","y","s","i","s"," ","c","o","m","p","l","e","t","e","d",".">>
                                ELSE ai.summary,
                    !.flags = IF ran THEN ai.flags ELSE ruleResult.flags,
                    !.aiRan = ran])

\* The handler up to its first request to the AI endpoint, or up to its
\* response when it makes none.
DemoStart ==
  /\ call.fn = "api-demo-analyze"
  /\ pc = "recv"
  /\ LET text == call.source_text
         refusal ==
           CASE call.method = "OPTIONS" ->
                  [NoResponse EXCEPT !.kind = "preflight", !.status = 200]
             [] call.method \notin {"OPTIONS", "POST"} ->
                  ErrorResponse(405, "Method not allowed")
             [] call.method = "POST" /\ call.limited ->
                  ErrorResponse(429, "Rate limit exceeded")
             [] call.method = "POST" /\ ~call.limited /\ ~call.parses ->
                  ErrorResponse(500, "Analysis failed. Please try again.")
             [] call.method = "POST" /\ ~call.limited /\ call.parses
                  /\ (~call.isString \/ text = <<>>) ->
                  ErrorResponse(400, "source_text is required and must be a string")
             [] call.method = "POST" /\ ~call.limited /\ call.parses
                  /\ call.isString /\ Len(text) > MAX_CHARS ->
                  ErrorResponse(400, "Contract text too long")
             [] call.method = "POST" /\ ~call.limited /\ call.parses
                  /\ call.isString /\ text # <<>> /\ Len(text) <= MAX_CHARS
                  /\ Len(trim(text)) < MinDemoChars ->
                  ErrorResponse(400, "Contract text too short")
             [] OTHER -> NoResponse
         runsAI == call.allowDemoAI /\ call.useAI
         throwsAtOnce == envProvider # "openai" \/ ~envApiKey
     IN  IF refusal # NoResponse
         THEN /\ Respond(refusal)
              /\ UNCHANGED <<reqVars, ruleBased, aiVars, aiRan>>
         ELSE /\ source_text' = text
              /\ useAI' = call.useAI
              /\ IF runsAI /\ ~throwsAtOnce
                 THEN /\ adapter' = "running"
                      /\ aiAttempt' = 1
                      /\ aiCallNo' = 1
                      /\ aiLog' = Append(aiLog, AICall(1, AttemptModels(model)[1], FALSE))
                      /\ pc' = "aiWait"
                      /\ UNCHANGED <<primaryErr, aiResult, ruleBased, aiRan, response>>
                 ELSE /\ adapter' = IF runsAI THEN "threw" ELSE adapter
                      /\ DemoFinish(FALSE, NoResult)
                      /\ UNCHANGED <<aiAttempt, aiCallNo, aiLog, primaryErr, aiResult>>
  /\ UNCHANGED <<fnVars, envVars, modVars, aiFallbackUsed, result, dbVars>>

\* The AI endpoint answers the pending request: runAttempt returns, retries
\* or throws, analyzeWithOpenAI moves to the next model or throws, and the
\* handler finishes with the AI result or, after the catch, with the rules.
DemoAIReceive ==
  /\ call.fn = "api-demo-analyze"
  /\ pc = "aiWait"
  /\ \E answer \in RemoteAnswers :
       LET step == runAttemptStep(answer, aiCallNo)
           err1 == IF aiAttempt = 1 THEN step.code ELSE primaryErr
           settled == Settle(aiLog, IF step.kind = "return" THEN "conforming"
                                    ELSE IF callOpenAIJSON(answer).threw THEN "threw"
                                    ELSE "nonconforming")
       IN  IF step.kind = "return"
           THEN /\ aiLog' = settled
                /\ adapter' = "returned"
                /\ aiResult' = AdapterResult(answer.parsed, Len(source_text) > MAX)
                /\ DemoFinish(TRUE, aiResult')
                /\ aiAttempt' = 0
                /\ aiCallNo' = 0
                /\ primaryErr' = ""
           ELSE IF step.kind = "retry"
           THEN /\ aiLog' = Append(settled,
                                   AICall(aiAttempt, AttemptModels(model)[aiAttempt], TRUE))
                /\ aiCallNo' = 2
                /\ UNCHANGED <<pc, aiAttempt, primaryErr, adapter, aiResult, ruleBased,
                               aiRan, response>>
           ELSE IF aiAttempt < Len(AttemptModels(model))
           THEN /\ aiLog' = Append(settled,
                                   AICall(aiAttempt + 1,
                                          AttemptModels(model)[aiAttempt + 1], FALSE))
                /\ aiAttempt' = aiAttempt + 1
                /\ aiCallNo' = 1
                /\ primaryErr' = err1
                /\ UNCHANGED <<pc, adapter, aiResult, ruleBased, aiRan, response>>
           ELSE /\ aiLog' = settled
                /\ primaryErr' = err1
                /\ adapter' = "threw"
                /\ DemoFinish(FALSE, NoResult)
                /\ aiAttempt' = 0
                /\ aiCallNo' = 0
                /\ UNCHANGED aiResult
  /\ UNCHANGED <<fnVars, envVars, reqVars, modVars, aiFallbackUsed, result, dbVars>>

DemoNext ==
  \/ DemoStart
  \/ DemoAIReceive

DemoSpec == DemoInit /\ [][DemoNext]_vars

(***************************************************************************)
(* Concurrent analyze-contract requests of one user.  Each request runs    *)
(* the handler on its own; they share the analyses table.  Here pc and     *)
(* response hold one value per request, and analysisRow the requests whose *)
(* analyses row was inserted within the current cooldown window, in the    *)
(* order of the inserts.                                                   *)
(***************************************************************************)
MaxRequests == 3

ANALYZE_COOLDOWN_SECONDS == 60

\* MaxRequests authenticated requests with a valid text have arrived.
CooldownInit ==
  /\ pc = [r \in 1..MaxRequests |-> "cooldown"]
  /\ response = [r \in 1..MaxRequests |-> [status |-> 0, error |-> "", retryAfter |-> 0]]
  /\ analysisRow = <<>>
  /\ envProvider = "openai" /\ envApiKey = TRUE /\ envModel = <<>>
  /\ source_text = TextArbitration /\ useAI = TRUE
  /\ contractRow = FALSE /\ ruleBased = NoResult
  /\ modCalls = 0 /\ modFlagged = FALSE /\ modCategories = <<>>
  /\ aiAttempt = 0 /\ aiCallNo = 0 /\ aiLog = <<>> /\ primaryErr = ""
  /\ adapter = "idle" /\ aiResult = NoResult
  /\ aiRan = FALSE /\ aiFallbackUsed = FALSE /\ result = NoResult
  /\ flagRows = 0
  /\ call = [fn |-> "analyze-contract"]
  /\ ret = NoReturn

\* 2b) of one request: the select of the user's analyses rows created
\* within the window, then 429 when it returned a row without an error.
CooldownQuery ==
  \E r \in 1..MaxRequests, rErr \in BOOLEAN :
    /\ pc[r] = "cooldown"
    /\ IF ~rErr /\ Len(analysisRow) > 0
       THEN /\ pc' = [pc EXCEPT ![r] = "done"]
            /\ response' = [response EXCEPT ![r] =
                              [status |-> 429, error |-> "Too many requests",
                               retryAfter |-> ANALYZE_COOLDOWN_SECONDS]]
       ELSE /\ pc' = [pc EXCEPT ![r] = "analyze"]
            /\ UNCHANGED response
    /\ UNCHANGED <<fnVars, envVars, reqVars, ruleBased, modVars, aiVars, stepVars, dbVars>>

\* Steps 3 to 8 of one request: it ends early when the contract insert
\* fails or the content is blocked, else it inserts its analyses row and
\* answers 200, or 500 when that insert fails.  None of the steps before
\* the insert reads or writes the analyses table.
AnalyzeAndInsert ==
  \E r \in 1..MaxRequests,
     outcome \in {<<500, "Failed to save contract">>, <<400, "Content blocked">>,
                  <<500, "Failed to save analysis">>, <<200, "">>} :
    /\ pc[r] = "analyze"
    /\ pc' = [pc EXCEPT ![r] = "done"]
    /\ response' = [response EXCEPT ![r] =
                      [status |-> outcome[1], error |-> outcome[2], retryAfter |-> 0]]
    /\ analysisRow' = IF outcome[1] = 200 THEN Append(analysisRow, r) ELSE analysisRow
    /\ UNCHANGED <<fnVars, envVars, reqVars, ruleBased, modVars, aiVars, stepVars,
                   contractRow, flagRows>>

CooldownNext ==
  \/ CooldownQuery
  \/ AnalyzeAndInsert

CooldownSpec == CooldownInit /\ [][CooldownNext]_vars

(***************************************************************************)
(* Properties.                                                             *)
(***************************************************************************)
\* The names of the categories the moderation result flags, in its order.
ReportedNames ==
  LET hit == SelectSeq(Indices(Len(modCategories)), LAMBDA i : modCategories[i][2])
  IN  [k \in 1..Len(hit) |-> modCategories[hit[k]][1]]

\* C1: once the moderation service has reported flagged = true, no request
\* is ever made to the AI analyzer for that request, and the request has
\* ended with HTTP 400 "Content blocked" whose message names the flagged
\* categories.
C1_FlaggedBlocksAI ==
  modFlagged =>
    /\ aiLog = <<>>
    /\ adapter = "idle"
    /\ ~aiRan
    /\ pc = "done"
    /\ response.status = 400
    /\ response.error = "Content blocked"
    /\ response.message =
         ModerationMessagePre \o JoinComma(ReportedNames, 1) \o ModerationMessagePost
    /\ \A i \in DOMAIN modCategories :
         modCategories[i][2] => indexOf(response.message, modCategories[i][1]) # -1

C1_Witness ==
  /\ modFlagged
  /\ Len(ReportedNames) = 2
  /\ modCalls = 2
  /\ pc = "done"

\* C2: when the AI path has failed with an error other than CONTENT_BLOCKED,
\* the error does not fail the request: the merge is skipped, step 5's result
\* is the rule result, aiRan stays false and aiFallbackUsed is true, and the
\* 200 response carries the rule result's overall_risk, summary and flags.
\* The only other response such a request can still get is the 500 of an
\* analyses row that could not be saved.
C2_FallbackToRules ==
  adapter = "threw" =>
    /\ ~aiRan
    /\ aiFallbackUsed
    /\ result = ruleBased
    /\ pc \in {"insertAnalysis", "insertFlags", "done"}
    /\ pc = "done" =>
         IF analysisRow.saved
         THEN /\ response.status = 200
              /\ response.overall_risk = ruleBased.overall_risk
              /\ response.summary = ruleBased.summary
              /\ response.flags = ruleBased.flags
              /\ ~response.aiRan
              /\ response.aiFallbackUsed
              /\ analysisRow.ai_fallback_used
         ELSE /\ response.status = 500
              /\ response.error = "Failed to save analysis"

C2_Witness ==
  /\ adapter = "threw"
  /\ Len(aiLog) = 6
  /\ pc = "done"
  /\ response.status = 200
  /\ Len(response.flags) = 2

\* The positions of aiLog that belong to attempt a.
CallsOf(a) == SelectSeq(Indices(Len(aiLog)), LAMBDA i : aiLog[i].attempt = a)

Failed(outcome) == outcome \in {"threw", "nonconforming"}

\* Attempt a was made and its last request failed.
AttemptFailed(a) ==
  LET c == CallsOf(a)
  IN  Len(c) > 0 /\ Failed(aiLog[c[Len(c)]].outcome)

AllAttemptsFailed == \A a \in 1..3 : AttemptFailed(a)

\* The configured model first, then gpt-4o-mini, then gpt-4.1, each begun
\* only when the one before has failed.
C3_InOrder ==
  /\ \A i \in DOMAIN aiLog :
       /\ aiLog[i].attempt \in 1..3
       /\ aiLog[i].model = CASE aiLog[i].attempt = 1 -> model
                             [] aiLog[i].attempt = 2 -> Gpt4oMini
                             [] aiLog[i].attempt = 3 -> Gpt41
  /\ aiLog # <<>> => aiLog[1].attempt = 1
  /\ \A i \in 1..(Len(aiLog) - 1) :
       \/ aiLog[i + 1].attempt = aiLog[i].attempt
       \/ /\ aiLog[i + 1].attempt = aiLog[i].attempt + 1
          /\ Failed(aiLog[i].outcome)

\* The first conforming answer is returned and no request follows it.
C3_FirstSuccess ==
  /\ \A i \in DOMAIN aiLog :
       aiLog[i].outcome = "conforming" => i = Len(aiLog) /\ adapter = "returned"
  /\ adapter = "returned" =>
       aiLog # <<>> /\ aiLog[Len(aiLog)].outcome = "conforming"

C4_SingleRetry ==
  \A a \in 1..3 :
    LET c == CallsOf(a)
    IN  /\ Len(c) <= 2
        /\ Len(c) >= 1 =>
             /\ ~aiLog[c[1]].retry
             /\ aiLog[c[1]].outcome = "nonconforming" => Len(c) = 2
        /\ Len(c) = 2 =>
             /\ c[2] = c[1] + 1
             /\ aiLog[c[2]].retry
             /\ aiLog[c[1]].outcome = "nonconforming"
             /\ aiLog[c[2]].outcome = "nonconforming" =>
                  IF c[2] = Len(aiLog)
                  THEN a = 3 /\ adapter = "threw"
                  ELSE aiLog[c[2] + 1].attempt = a + 1

C4_Witness ==
  /\ Len(aiLog) = 4
  /\ aiLog[1].outcome = "nonconforming"
  /\ aiLog[2].retry
  /\ aiLog[2].outcome = "nonconforming"
  /\ aiLog[3].attempt = 2
  /\ aiLog[3].outcome = "nonconforming"
  /\ aiLog[4].outcome = "conforming"

\* C5 as stated: one request makes at most 4 sequential requests to the AI
\* endpoint.
C5_AtMostFourRequests == Len(aiLog) <= 4

\* C5, amended: one request makes at most 6 sequential requests to the AI
\* endpoint: three model attempts of two requests each.
C5_AtMostSixRequests == Len(aiLog) <= 6

C5_Witness ==
  /\ Len(aiLog) = 6
  /\ \A a \in 1..3 : Len(CallsOf(a)) = 2

\* C6: every analyze-contract request eventually returns a response, also
\* when a request to the AI endpoint never answers.
C6_EventuallyResponds == <>(pc = "done")

\* The handler waits for the answer to its first request to the AI endpoint.
C6_Witness ==
  /\ pc = "aiWait"
  /\ Len(aiLog) = 1
  /\ aiLog[1].outcome = "pending"
  /\ response = NoResponse

\* C7: every result the AI adapter returns conforms to the declared schema.
C7_AdapterResultConforms ==
  adapter = "returned" => ConformsToSchema(aiResult)

\* The adapter has returned a result with an empty summary.
C7_Witness ==
  /\ adapter = "returned"
  /\ aiResult.summary = <<>>
  /\ aiRan

\* C8: for a clause key that occurs among the rule flags and among the AI
\* flags, the merged flag's severity is at least that of every rule flag and
\* of every AI flag with that key.
C8_MergeNeverDowngrades ==
  aiRan =>
    \A m \in DOMAIN result.flags :
      LET key    == norm(result.flags[m].clause)
          inRule == {i \in DOMAIN ruleBased.flags :
                       norm(ruleBased.flags[i].clause) = key}
          inAI   == {j \in DOMAIN aiResult.flags :
                       norm(aiResult.flags[j].clause) = key}
      IN  (inRule # {} /\ inAI # {}) =>
            /\ \A i \in inRule :
                 rank(result.flags[m].severity) >= rank(ruleBased.flags[i].severity)
            /\ \A j \in inAI :
                 rank(result.flags[m].severity) >= rank(aiResult.flags[j].severity)

\* Two rule flags share a clause, the first high and the second low, the AI
\* flags that clause low, and the merged flag is low.
C8_Witness ==
  /\ aiRan
  /\ Len(ruleBased.flags) = 2
  /\ ruleBased.flags[1].severity = "high"
  /\ norm(ruleBased.flags[1].clause) = norm(ruleBased.flags[2].clause)
  /\ Len(aiResult.flags) = 1
  /\ norm(aiResult.flags[1].clause) = norm(ruleBased.flags[1].clause)
  /\ Len(result.flags) = 1
  /\ result.flags[1].severity = "low"

\* The flags that went into the result.
ContributingFlags ==
  ruleBased.flags \o (IF aiRan THEN aiResult.flags ELSE <<>>)

\* C9: the overall_risk returned is the maximum severity among the
\* contributing flags, and is never lower than the severity of a flag of the
\* result.
C9_OverallRiskIsMaxOfFlags ==
  (pc = "done" /\ response.status = 200 /\ response.kind = "analysis") =>
    /\ \A i \in DOMAIN response.flags :
         rank(response.overall_risk) >= rank(response.flags[i].severity)
    /\ ContributingFlags # <<>> =>
         /\ \E i \in DOMAIN ContributingFlags :
              ContributingFlags[i].severity = response.overall_risk
         /\ \A i \in DOMAIN ContributingFlags :
              rank(ContributingFlags[i].severity) <= rank(response.overall_risk)

\* A 200 response whose overall_risk is low and which carries a high flag.
C9_Witness ==
  /\ pc = "done"
  /\ response.status = 200
  /\ response.overall_risk = "low"
  /\ \E i \in DOMAIN response.flags : response.flags[i].severity = "high"

\* C11: the merged flag list holds at most one flag per de-duplication key
\* (the clause lowercased, its whitespace runs collapsed, cut to 140
\* characters), and so is no longer than the rule flags and the AI flags
\* together.
C11_MergedFlagsDeduplicated ==
  aiRan =>
    /\ \A i \in DOMAIN result.flags, j \in DOMAIN result.flags :
         i # j =>
           slice0(collapseWhitespace(toLowerCase(result.flags[i].clause)), 140)
             # slice0(collapseWhitespace(toLowerCase(result.flags[j].clause)), 140)
    /\ Len(result.flags) <= Len(ruleBased.flags) + Len(aiResult.flags)
    /\ response.kind = "analysis" => response.flags = result.flags

\* Two AI flags whose clauses differ only behind the 140th character were
\* merged into one.
C11_Witness ==
  /\ aiRan
  /\ Len(aiResult.flags) = 2
  /\ aiResult.flags[1].clause # aiResult.flags[2].clause
  /\ Len(aiResult.flags[1].clause) > 140
  /\ Len(result.flags) = 1
  /\ pc = "done"

\* C10: the merged overall_risk is the maximum of the rule result's and the
\* AI result's overall_risk, whichever way round the two are given.
C10_OverallRiskIsMax ==
  /\ \A a \in Severities, b \in Severities :
       /\ mergedOverallRisk(a, b) = mergedOverallRisk(b, a)
       /\ mergedOverallRisk(a, b) \in {a, b}
       /\ rank(mergedOverallRisk(a, b)) = Max(rank(a), rank(b))
  /\ aiRan =>
       /\ result.overall_risk \in {ruleBased.overall_risk, aiResult.overall_risk}
       /\ rank(result.overall_risk)
            = Max(rank(ruleBased.overall_risk), rank(aiResult.overall_risk))
       /\ result.overall_risk
            = mergedOverallRisk(aiResult.overall_risk, ruleBased.overall_risk)

C10_Witness ==
  /\ aiRan
  /\ ruleBased.overall_risk = "high"
  /\ aiResult.overall_risk = "low"
  /\ result.overall_risk = "high"
  /\ pc = "done"
  /\ response.overall_risk = "high"

\* The flags runRuleAnalyzer returned and the text it was called with.
RuleReturned == call.fn = "runRuleAnalyzer" /\ ret.done

\* C12: the overall_risk the rule engine returns is the highest severity
\* among the flags it returns, and low when it returns no flag.
C12_RuleRiskIsMaxSeverity ==
  RuleReturned =>
    LET flags == ret.value.flags
        risk  == ret.value.overall_risk
    IN  IF flags = <<>>
        THEN risk = "low"
        ELSE /\ \E i \in DOMAIN flags : flags[i].severity = risk
             /\ \A i \in DOMAIN flags : rank(flags[i].severity) <= rank(risk)

\* The engine returned a medium flag next to low ones and no high one.
C12_Witness ==
  /\ RuleReturned
  /\ ret.value.overall_risk = "medium"
  /\ \E i \in DOMAIN ret.value.flags : ret.value.flags[i].severity = "low"
  /\ \E i \in DOMAIN ret.value.flags : ret.value.flags[i].severity = "medium"

\* C13: every catalog pattern contributes at most one flag, built at its
\* first case-insensitive occurrence, however often it occurs in the text:
\* the flags are those of the patterns that occur, one each in catalog
\* order, and never more than there are patterns.
C13_OneFlagPerPattern ==
  RuleReturned =>
    LET lowerText == toLowerCase(call.source_text)
        occurring == SelectSeq(Indices(Len(patterns)), LAMBDA k :
                                 indexOf(lowerText, patterns[k]) # -1)
        flags     == ret.value.flags
    IN  /\ Len(flags) = Len(occurring)
        /\ Len(flags) <= Len(patterns)
        /\ \A n \in DOMAIN flags :
             flags[n] = RuleFlag(call.source_text, patterns[occurring[n]],
                                 indexOf(lowerText, patterns[occurring[n]]))

\* A text that says "arbitration" six times, in two cases, got one flag.
C13_Witness ==
  /\ RuleReturned
  /\ call.source_text = RulePhrases[4] \o RulePhrases[4] \o RulePhrases[4]
  /\ Len(ret.value.flags) = 1

\* C14: for the renewing agreement with an indemnity the rule engine returns
\* at least two flags, one of them high and one of them low, and an
\* overall_risk of high.
C14_RenewalAndIndemnityFlagged ==
  (RuleReturned /\ call.source_text = TextAutomaticRenewal) =>
    /\ Len(ret.value.flags) >= 2
    /\ \E i \in DOMAIN ret.value.flags : ret.value.flags[i].severity = "high"
    /\ \E i \in DOMAIN ret.value.flags : ret.value.flags[i].severity = "low"
    /\ ret.value.overall_risk = "high"

\* The engine returned for that agreement: the indemnity flag alone.
C14_Witness ==
  /\ RuleReturned
  /\ call.source_text = TextAutomaticRenewal
  /\ Len(ret.value.flags) = 1
  /\ ret.value.flags[1].severity = "high"
  /\ ret.value.overall_risk = "high"

SpanReturned == call.fn = "extractSpan" /\ ret.done

\* C15: for every source and every clause that is a verbatim piece of the
\* source, extractSpan returns a start and an end that are not null, and the
\* source between them equals the clause up to case.
C15_VerbatimClauseLocated ==
  (SpanReturned /\ indexOf(call.source, call.clause) # -1) =>
    /\ ret.value.span # NoSpan
    /\ toLowerCase(substring(call.source, ret.value.span[1], ret.value.span[2]))
         = toLowerCase(call.clause)

\* A clause that begins with a space, taken from the source, was located at
\* the span of its trimmed text.
C15_Witness ==
  /\ SpanReturned
  /\ indexOf(call.source, call.clause) # -1
  /\ call.clause # <<>>
  /\ IsSpace(call.clause[1])
  /\ trim(call.clause) # <<>>
  /\ ret.value.span # NoSpan
  /\ ret.value.span[2] - ret.value.span[1] < Len(call.clause)

\* C16: extractSpan returns for every source and clause, and whenever it
\* returns a null start and end its context is the clause, cut to its first
\* 200 characters and an ellipsis when it is longer.
C16_NoSpanContextIsClause ==
  SpanReturned =>
    /\ ret.value.span = NoSpan =>
         ret.value.context = IF Len(call.clause) > 200
                             THEN SubSeq(call.clause, 1, 200) \o <<".", ".", ".">>
                             ELSE call.clause

\* An empty source and a clause that is not empty: no span, and an empty
\* context.
C16_Witness ==
  /\ SpanReturned
  /\ call.source = <<>>
  /\ call.clause # <<>>
  /\ ret.value.span = NoSpan
  /\ ret.value.context = <<>>

RedlineReturned == call.fn = "api-redline" /\ ret.done /\ ret.value.status = 200

\* The text of the change objects of one kind and of the unchanged ones.
DiffText(diff, kind) ==
  Concat([k \in 1..Len(diff) |->
            IF diff[k].kind \in {kind, "common"} THEN diff[k].value ELSE <<>>])

\* C17: the word diff round-trips: the change objects that are not removed
\* spell the rewrite and those that are not added spell the original
\* clause.  Stated for a clause and a rewrite made of the same words, where
\* the comparison of diffWords decides the kinds of the change objects.
C17_DiffRoundTrips ==
  (RedlineReturned /\ Words(call.clause) = Words(ret.value.rewrite)) =>
    /\ DiffText(ret.value.diff, "added") = ret.value.rewrite
    /\ DiffText(ret.value.diff, "removed") = call.clause

\* The AI rewrote the clause with other spacing and the diff is the text of
\* the rewrite, unchanged.
C17_Witness ==
  /\ RedlineReturned
  /\ Words(call.clause) = Words(ret.value.rewrite)
  /\ call.clause # ret.value.rewrite
  /\ ret.value.diff = <<[kind |-> "common", value |-> ret.value.rewrite]>>

\* An answer of the AI endpoint that carries a rewrite.
RewriteAvailable ==
  /\ call.useAI
  /\ envApiKey
  /\ ret.value.answer.kind = "parsed"
  /\ ret.value.answer.rewrite.t = "string"
  /\ ret.value.answer.rewrite.s # <<>>

\* C18: when no AI rewrite is asked for (useAI false) or none is available
\* (no API key, HTTP error, exception, content that does not parse or has
\* no rewrite), the rewrite is the clause, a space and the suggestion in
\* parentheses.
C18_FallbackRewrite ==
  (RedlineReturned /\ ~RewriteAvailable) =>
    ret.value.rewrite = call.clause \o <<" ", "(">> \o call.suggestion \o <<")">>

\* useAI was false and the rewrite is the clause as it was sent.
C18_Witness ==
  /\ RedlineReturned
  /\ ~call.useAI
  /\ ret.value.rewrite = call.clause
  /\ ret.value.diff # <<>>

\* C19: every character of the diffed text is escaped in html: each '<' and
\* each '>' of html belongs to a <del>, </del>, <ins> or </ins> the loop put
\* around a change object, one pair for each removed or added one, and no
\* quote stands in html and each '&' begins an entity.
C19_HtmlEscaped ==
  RedlineReturned =>
    LET html == ret.value.html
        diff == ret.value.diff
        At(i, marker) == substring(html, i - 1, i - 1 + Len(marker)) = marker
        Ends(i, marker) == i >= Len(marker) /\ substring(html, i - Len(marker), i) = marker
        Markers == {<<"<","d","e","l",">">>, <<"<","/","d","e","l",">">>,
                    <<"<","i","n","s",">">>, <<"<","/","i","n","s",">">>}
        Entities == {<<"&","a","m","p",";">>, <<"&","l","t",";">>, <<"&","g","t",";">>,
                     <<"&","q","u","o","t",";">>, <<"&","#","3","9",";">>}
        Count(marker) == Cardinality({i \in 1..Len(html) : At(i, marker)})
        Changes(kind) == Cardinality({k \in 1..Len(diff) : diff[k].kind = kind})
    IN  /\ \A i \in 1..Len(html) :
             /\ html[i] = "<" => \E marker \in Markers : At(i, marker)
             /\ html[i] = ">" => \E marker \in Markers : Ends(i, marker)
             /\ html[i] = "&" => \E entity \in Entities : At(i, entity)
             /\ html[i] \notin {"\"", "'"}
        /\ Count(<<"<","d","e","l",">">>) = Changes("removed")
        /\ Count(<<"<","/","d","e","l",">">>) = Changes("removed")
        /\ Count(<<"<","i","n","s",">">>) = Changes("added")
        /\ Count(<<"<","/","i","n","s",">">>) = Changes("added")

\* A removed "<b>now</b>" and an added "</del>later" were wrapped.
C19_Witness ==
  /\ RedlineReturned
  /\ Len(ret.value.diff) = 2
  /\ ret.value.diff[1].kind = "removed"
  /\ ret.value.diff[2].kind = "added"
  /\ \E i \in DOMAIN ret.value.diff[1].value : ret.value.diff[1].value[i] = "<"
  /\ substring(ret.value.diff[2].value, 0, 6) = <<"<","/","d","e","l",">">>

HighlightReturned == call.fn \in {"highlightKeywords", "highlightText"} /\ ret.done

\* C20: highlighting does nothing on empty input: with an empty keyword
\* list either highlighter returns the text as it is, and for the empty
\* text it returns the empty text whatever the keywords.
C20_HighlightEmptyInput ==
  HighlightReturned =>
    /\ call.keywords = <<>> => ret.value = call.text
    /\ call.text = <<>> => ret.value = <<>>

\* highlightKeywords returned a text it was given no keywords for.
C20_Witness ==
  /\ HighlightReturned
  /\ call.fn = "highlightKeywords"
  /\ call.keywords = <<>>
  /\ call.text # <<>>
  /\ ret.value = call.text

\* C21: after normalizeFlag every flag has a clause that is not empty, a
\* severity that is low, medium or high, and a rationale and a suggestion
\* that are strings, whatever fields the flag it was given had.
C21_NormalizedFlagComplete ==
  (call.fn = "normalizeFlag" /\ ret.done) =>
    /\ ret.value.clause.t = "string" /\ ret.value.clause.s # <<>>
    /\ ret.value.severity.t = "string"
    /\ ret.value.severity.s \in {<<"l","o","w">>, <<"m","e","d","i","u","m">>, <<"h","i","g","h">>}
    /\ ret.value.rationale.t = "string"
    /\ ret.value.suggestion.t = "string"

\* A flag without a clause was normalised: its clause is the empty string.
C21_Witness ==
  /\ call.fn = "normalizeFlag"
  /\ ret.done
  /\ call.f.t = "object"
  /\ call.f.clause.t = "undefined"
  /\ call.f.severity.t = "string"
  /\ ret.value.clause = JText(<<>>)
  /\ ret.value.rationale.t = "string"

\* C22: a request whose text is empty or longer than MAX_ANALYZE_CHARS is
\* rejected before any analysis runs: reading such a body ends the request
\* with 400 'Missing text' or 413 'Text too long', and at no time is there
\* a contract row, a rule result, a moderation request, an AI request or an
\* analysis row for it.
C22_InvalidTextRejected ==
  /\ [][(pc = "validate" /\ pc' # "validate"
           /\ response'.error # "Internal server error") =>
          /\ Len(source_text') = 0 =>
               pc' = "done" /\ response' = ErrorResponse(400, "Missing text")
          /\ Len(source_text') > MAX_ANALYZE_CHARS =>
               pc' = "done" /\ response' = ErrorResponse(413, "Text too long")]_vars
  /\ [](Len(source_text) = 0 \/ Len(source_text) > MAX_ANALYZE_CHARS =>
          /\ ~contractRow
          /\ ruleBased = NoResult
          /\ modCalls = 0
          /\ aiLog = <<>>
          /\ adapter = "idle"
          /\ analysisRow = NoRow
          /\ flagRows = 0)

\* An oversized text was answered 413 with nothing written.
C22_Witness ==
  /\ pc = "done"
  /\ Len(source_text) > MAX_ANALYZE_CHARS
  /\ response.status = 413
  /\ ~contractRow
  /\ modCalls = 0

\* C23: the clause of every rule flag is the sentence, between sentence
\* delimiters, that holds the offset of the first match of its pattern, or
\* the window of ContextRadius characters either side of that offset, and
\* it covers the matched phrase, runs of several delimiters included.
C23_ClauseIsEnclosingSentence ==
  RuleReturned =>
    LET text      == call.source_text
        lowerText == toLowerCase(text)
        fired     == SelectSeq(Indices(Len(patterns)),
                               LAMBDA k : PatternIndex(lowerText, k) # -1)
        Enclosing(index) ==
          LET before == {i \in 1..index : IsTerminator(text[i])}
              after  == {i \in (index + 1)..Len(text) : IsTerminator(text[i])}
              a == IF before = {} THEN 0
                   ELSE CHOOSE i \in before : \A j \in before : j <= i
              b == IF after = {} THEN Len(text)
                   ELSE (CHOOSE i \in after : \A j \in after : i <= j) - 1
          IN  trim(substring(text, a, b))
    IN  /\ Len(ret.value.flags) = Len(fired)
        /\ \A n \in DOMAIN fired :
             LET index  == PatternIndex(lowerText, fired[n])
                 clause == ret.value.flags[n].clause
             IN  /\ clause \in {Enclosing(index), ContextWindow(text, index)}
                 /\ indexOf(toLowerCase(clause), patterns[fired[n]]) # -1

\* The sale as is was flagged with the sentence after it.
C23_Witness ==
  /\ RuleReturned
  /\ call.source_text = TextDelimiterRun
  /\ Len(ret.value.flags) = 1
  /\ ret.value.flags[1].severity = "medium"
  /\ ret.value.flags[1].clause = <<"B","u","y","e","r"," ","p","a","y","s">>

\* C24: in both entry points that can run the AI path, a request to the AI
\* analyzer is made only after a moderation check of the text completed
\* without flagging it: whenever the AI analyzer was called, a moderation
\* request was made and no moderation result was flagged.
C24_AIOnlyAfterModeration ==
  aiLog # <<>> => modCalls >= 1 /\ ~modFlagged

\* The demo endpoint returned an AI result without a moderation request.
C24_Witness ==
  /\ call.fn = "api-demo-analyze"
  /\ pc = "done"
  /\ call.allowDemoAI /\ call.useAI
  /\ response.status = 200
  /\ response.aiRan
  /\ aiLog # <<>>
  /\ modCalls = 0

\* C25: under every interleaving of concurrent requests of one user, within
\* one cooldown window at most one request passes the cooldown check and
\* at most one analyses row is created, and every other request that has
\* been answered got 429 with a retry-after header.
C25_CooldownUnderConcurrency ==
  LET passed == {r \in 1..MaxRequests :
                   pc[r] = "analyze" \/ (pc[r] = "done" /\ response[r].status # 429)}
  IN  /\ Cardinality(passed) <= 1
      /\ Len(analysisRow) <= 1
      /\ \A r \in 1..MaxRequests :
           pc[r] = "done" /\ r \notin passed =>
             response[r].retryAfter = ANALYZE_COOLDOWN_SECONDS

\* Two requests of the user were both answered 200, each with its own
\* analyses row, in one window.
C25_Witness ==
  /\ Len(analysisRow) = 2
  /\ response[1].status = 200
  /\ response[2].status = 200

\* C26: highlightKeywords leaves no partial-overlap artifacts: in its output
\* no highlight marker is nested inside another (the opening and closing
\* markers alternate), and taking the markers out gives back the text, so
\* neither a keyword inside a highlighted longer keyword nor the marker
\* text itself is wrapped a second time.
C26_NoNestedMarkers ==
  (call.fn = "highlightKeywords" /\ ret.done) =>
    LET out    == ret.value
        open   == <<"<","m","a","r","k",">">>
        close  == <<"<","/","m","a","r","k",">">>
        IsOpen(p)  == substring(out, p, p + Len(open)) = open
        IsClose(p) == substring(out, p, p + Len(close)) = close
        Depth(p) == Cardinality({q \in 0..p : IsOpen(q)})
                      - Cardinality({q \in 0..p : IsClose(q)})
        InMarker(i) == \E q \in 0..(i - 1) :
                         \/ IsOpen(q) /\ i <= q + Len(open)
                         \/ IsClose(q) /\ i <= q + Len(close)
    IN  /\ \A p \in 0..Len(out) : Depth(p) \in {0, 1}
        /\ SelectSeq([i \in 1..Len(out) |-> IF InMarker(i) THEN "" ELSE out[i]],
                     LAMBDA c : c # "") = call.text

\* 'late fee' and then 'fee' were highlighted in 'Late fee applies': the
\* second marker stands inside the first.
C26_Witness ==
  /\ call.fn = "highlightKeywords"
  /\ ret.done
  /\ call.text = <<"L","a","t","e"," ","f","e","e"," ","a","p","p","l","i","e","s">>
  /\ call.keywords = << <<"f","e","e">>, <<"l","a","t","e"," ","f","e","e">> >>
  /\ ret.value = <<"<","m","a","r","k",">","L","a","t","e"," ","<","m","a","r","k",">","f","e","e","<","/","m","a","r","k",">","<","/","m","a","r","k",">"," ","a","p","p","l","i","e","s">>

\* C27: the merge loses and weakens no flag: for every rule flag and every
\* AI flag the merged list holds a flag with the same de-duplication key
\* whose severity is at least that flag's, also when two rule flags share
\* one key.
C27_MergeKeepsEveryFlag ==
  aiRan =>
    LET Kept(f) == \E m \in DOMAIN result.flags :
                     /\ norm(result.flags[m].clause) = norm(f.clause)
                     /\ rank(result.flags[m].severity) >= rank(f.severity)
    IN  /\ \A i \in DOMAIN ruleBased.flags : Kept(ruleBased.flags[i])
        /\ \A j \in DOMAIN aiResult.flags : Kept(aiResult.flags[j])

\* Two rule flags share a clause, the first high and the second low, the AI
\* returns no flag, and the only merged flag is low.
C27_Witness ==
  /\ aiRan
  /\ source_text = TextDuplicateClause
  /\ Len(ruleBased.flags) = 2
  /\ ruleBased.flags[1].severity = "high"
  /\ ruleBased.flags[2].severity = "low"
  /\ aiResult.flags = <<>>
  /\ Len(result.flags) = 1
  /\ result.flags[1].severity = "low"

\* C28: an AI flag whose key is in the map is merged into the flag found
\* there (the last rule flag with that key, or the AI flag before it): the
\* merged flag has the longer of the two clauses, the existing one when
\* they are equally long, and the AI flag's rationale and suggestion unless
\* empty, the existing flag's otherwise; an AI flag with a new key is
\* inserted as it is.  Stated for the keys of at most two AI flags.
C28_MergedFlagFields ==
  aiRan =>
    \A j \in DOMAIN aiResult.flags :
      LET f      == aiResult.flags[j]
          sameAI == {i \in DOMAIN aiResult.flags :
                       norm(aiResult.flags[i].clause) = norm(f.clause)}
          inRule == {i \in DOMAIN ruleBased.flags :
                       norm(ruleBased.flags[i].clause) = norm(f.clause)}
          merged == {result.flags[m] : m \in {n \in DOMAIN result.flags :
                       norm(result.flags[n].clause) = norm(f.clause)}}
          IsMerge(mf, prev, g) ==
            /\ mf.clause = IF Len(g.clause) > Len(prev.clause) THEN g.clause
                           ELSE prev.clause
            /\ mf.rationale = IF g.rationale = <<>> THEN prev.rationale ELSE g.rationale
            /\ mf.suggestion = IF g.suggestion = <<>> THEN prev.suggestion
                               ELSE g.suggestion
      IN  /\ Cardinality(merged) = 1
          /\ \A mf \in merged :
               /\ (sameAI = {j} /\ inRule = {}) => mf = f
               /\ (sameAI = {j} /\ inRule # {}) =>
                    IsMerge(mf, ruleBased.flags[CHOOSE i \in inRule :
                                                  \A k \in inRule : k <= i], f)
               /\ (Cardinality(sameAI) = 2 /\ inRule = {}
                     /\ \E i \in sameAI : i < j) =>
                    IsMerge(mf, aiResult.flags[CHOOSE i \in sameAI : i < j], f)

\* An AI flag with a longer clause, no rationale and a suggestion met the
\* rule flag of its key: the merged flag has the AI clause, the rule flag's
\* rationale and the AI suggestion.
C28_Witness ==
  /\ aiRan
  /\ source_text = TextDuplicateClause
  /\ Len(aiResult.flags) = 1
  /\ aiResult.flags[1].rationale = <<>>
  /\ Len(aiResult.flags[1].clause) > Len(ruleBased.flags[2].clause)
  /\ Len(result.flags) = 1
  /\ result.flags[1].clause = aiResult.flags[1].clause
  /\ result.flags[1].rationale = ruleBased.flags[2].rationale
  /\ result.flags[1].suggestion = aiResult.flags[1].suggestion
  /\ result.flags[1].suggestion # <<>>

\* C29: ensureSafeInput makes at most two moderation requests, the second
\* only after the first failed; it throws only for a flagged result, and
\* then the handler answers with the message of exactly the flagged
\* categories; otherwise, also when both requests failed or the API key
\* is missing, it returns and the handler goes on to the AI analyzer.
C29_ModerationFailsOpen ==
  /\ [](modCalls <= 2)
  /\ [][modCalls' # modCalls =>
          \/ modCalls = 0 /\ modCalls' = 1 /\ pc = "moderate"
          \/ modCalls = 1 /\ modCalls' = 2 /\ pc = "moderateRetry"]_vars
  /\ [][pc' = "moderateRetry" => pc = "moderate" /\ ~modFlagged']_vars
  /\ [][(pc \in {"moderate", "moderateRetry"} /\ pc' \notin {"moderate", "moderateRetry"}) =>
          IF modFlagged'
          THEN /\ modCalls' >= 1
               /\ pc' = "done"
               /\ response' = BlockedResponse(
                    LET hit == {i \in DOMAIN modCategories' : modCategories'[i][2]}
                    IN  SelectSeq([i \in DOMAIN modCategories' |->
                                     IF i \in hit THEN modCategories'[i][1] ELSE <<>>],
                                  LAMBDA name : name # <<>>))
          ELSE /\ pc' = "ai"
               /\ UNCHANGED response]_vars

\* Both moderation requests failed and the AI analyzer was requested.
C29_Witness ==
  /\ modCalls = 2
  /\ ~modFlagged
  /\ aiLog # <<>>
  /\ adapter = "running"

\* C30: when the exact tier and the middle-words tier fail and a sentence of
\* the source holds a risk keyword, extractSpan returns the span of the
\* first such sentence (the source between start and end is that sentence)
\* and as context the sentence before it, the sentence and the one after
\* it, those that exist, joined with spaces.  Stated for some sentence
\* list the splitter can return, for sources of which every such list has
\* a sentence with a risk keyword.
C30_KeywordSentenceSpan ==
  LET source     == call.source
      clauseNorm == toLowerCase(trim(call.clause))
      words      == Words(clauseNorm)
      first      == (Len(words) - MiddleWords) \div 2
      tiersFail  ==
        /\ indexOf(toLowerCase(source), clauseNorm) = -1
        /\ Len(words) >= MiddleWords =>
             indexOf(toLowerCase(source),
                     JoinWords(clauseNorm, first + 1, first + MiddleWords)) = -1
      WithKeyword(sentences) ==
        {i \in DOMAIN sentences :
           \E k \in DOMAIN RISK_KEYWORDS :
             indexOf(toLowerCase(sentences[i]), RISK_KEYWORDS[k]) # -1}
      AsClaimed(sentences) ==
        LET i == CHOOSE m \in WithKeyword(sentences) :
                   \A n \in WithKeyword(sentences) : m <= n
        IN  /\ ret.value.span # NoSpan
            /\ substring(source, ret.value.span[1], ret.value.span[2]) = sentences[i]
            /\ ret.value.context =
                 (IF i > 1 THEN sentences[i - 1] \o <<" ">> ELSE <<>>)
                 \o sentences[i]
                 \o (IF i < Len(sentences) THEN <<" ">> \o sentences[i + 1] ELSE <<>>)
  IN  (/\ SpanReturned
       /\ source # <<>> /\ call.clause # <<>>
       /\ tiersFail
       /\ \A sentences \in SentenceSplits(source) : WithKeyword(sentences) # {}) =>
        \E sentences \in SentenceSplits(source) : AsClaimed(sentences)

\* A source whose sentence with a risk keyword holds a double space: the
\* sentence is not found in the source and no span is returned.
C30_Witness ==
  /\ SpanReturned
  /\ call.source = SpanSources[4]
  /\ call.clause = <<"N","o"," ","s","u","c","h"," ","w","o","r","d","s">>
  /\ ret.value.span = NoSpan
  /\ ret.value.context = call.clause

=============================================================================
